---- MODULE Spec2Model ----
(***************************************************************************)
(* A model of the contextual response pipeline of ragbot_nutri:            *)
(* rag.get_contextual_response (the agent executor: first completion, tool *)
(* detection and dispatch, second completion, retrieval, deduplication,    *)
(* compression, final completion), the agent tools of agent_tools.py over  *)
(* the customer_progress table, and the instruction resolver               *)
(* knowledge_manager.get_prompts over the instruction and promotion files. *)
(*                                                                         *)
(* Text is modelled as a sequence of tokens (strings): a token is a        *)
(* punctuation character, a whitespace character, a bare word, or a JSON   *)
(* literal.  json.loads, str.strip, str.startswith and the f-strings of    *)
(* the source are operators on such sequences.                             *)
(***************************************************************************)
EXTENDS Integers, Sequences, FiniteSets, TLC

(***************************************************************************)
(* Bounds of the model.                                                    *)
(***************************************************************************)
\* the most passages one retrieval branch returns
MaxDocs == 2
\* the most requests one behaviour serves
MaxRequests == 2
\* the most instruction / promotion files on disk
MaxFiles == 2
\* the most records the customer_progress table holds
MaxRows == 2
\* the most WhatsApp webhook requests and WebSocket connections one behaviour serves
MaxWebhooks == 2
MaxConnections == 1
\* the most turns of a conversation history formatted on its own
MaxTurns == 3

(***************************************************************************)
(* Tokens.                                                                 *)
(***************************************************************************)
WS == " "
JsonNumbers == {"7"}

IsStringTok(t) ==
    LET
        Punct == {"{", "}", "[", "]", ":", ","}
    IN
    LET
        \* words that are no JSON literal: json.loads rejects them
        BareWords == {"Hello", "this", "is", "not", "json"}
    IN
                  t \notin (Punct \cup BareWords \cup JsonNumbers \cup {"null", WS})

Last(s) == s[Len(s)]

RECURSIVE lstrip(_)
lstrip(s) == IF s # <<>> /\ Head(s) = WS THEN lstrip(Tail(s)) ELSE s

RECURSIVE rstrip(_)
rstrip(s) == IF s # <<>> /\ Last(s) = WS THEN rstrip(SubSeq(s, 1, Len(s) - 1)) ELSE s

\* str.strip()
strip(s) == rstrip(lstrip(s))

(***************************************************************************)
(* json.loads.  A parsed value is [kind, str, items]: kind is one of       *)
(* "str", "num", "null", "obj", "arr"; str is the literal of a scalar;     *)
(* items are the <<key, value>> members of an object in source order (an   *)
(* array's elements carry the key "").                                     *)
(***************************************************************************)
Scalar(k, t) == [kind |-> k, str |-> t, items |-> <<>>]
NoneVal == Scalar("null", "None")
Composite(k, its) == [kind |-> k, str |-> "", items |-> its]
EmptyDict == Composite("obj", <<>>)

ParseFail == [ok |-> FALSE, val |-> NoneVal, next |-> 0]
ParseOk(v, n) == [ok |-> TRUE, val |-> v, next |-> n]

RECURSIVE ParseValue(_, _)
RECURSIVE ParsePairs(_, _, _)
RECURSIVE ParseElements(_, _, _)

ParsePairs(s, i, acc) ==
    IF i + 1 > Len(s) \/ ~IsStringTok(s[i]) \/ s[i + 1] # ":" THEN ParseFail
    ELSE LET v == ParseValue(s, i + 2) IN
         IF ~v.ok \/ v.next > Len(s) THEN ParseFail
         ELSE LET acc2 == Append(acc, <<s[i], v.val>>) IN
              IF s[v.next] = "," THEN ParsePairs(s, v.next + 1, acc2)
              ELSE IF s[v.next] = "}" THEN ParseOk(Composite("obj", acc2), v.next + 1)
              ELSE ParseFail

ParseElements(s, i, acc) ==
    LET v == ParseValue(s, i) IN
    IF ~v.ok \/ v.next > Len(s) THEN ParseFail
    ELSE LET acc2 == Append(acc, <<"", v.val>>) IN
         IF s[v.next] = "," THEN ParseElements(s, v.next + 1, acc2)
         ELSE IF s[v.next] = "]" THEN ParseOk(Composite("arr", acc2), v.next + 1)
         ELSE ParseFail

ParseValue(s, i) ==
    IF i > Len(s) THEN ParseFail
    ELSE IF s[i] = "{" THEN
        IF i + 1 <= Len(s) /\ s[i + 1] = "}" THEN ParseOk(EmptyDict, i + 2)
        ELSE ParsePairs(s, i + 1, <<>>)
    ELSE IF s[i] = "[" THEN
        IF i + 1 <= Len(s) /\ s[i + 1] = "]" THEN ParseOk(Composite("arr", <<>>), i + 2)
        ELSE ParseElements(s, i + 1, <<>>)
    ELSE IF s[i] \in JsonNumbers THEN ParseOk(Scalar("num", s[i]), i + 1)
    ELSE IF s[i] = "null" THEN ParseOk(NoneVal, i + 1)
    ELSE IF IsStringTok(s[i]) THEN ParseOk(Scalar("str", s[i]), i + 1)
    ELSE ParseFail

\* json.loads(text): ok = FALSE stands for json.JSONDecodeError
json_loads(text) ==
    LET
        \* the JSON scanner skips whitespace between tokens
        IsNotWS(t) == t # WS
    IN
    LET
        Lex(s) == SelectSeq(s, IsNotWS)
    IN
    LET l == Lex(text)
        r == ParseValue(l, 1)
    IN IF r.ok /\ r.next = Len(l) + 1 THEN r ELSE ParseFail

\* the keys of a parsed object
Keys(d) == {d.items[i][1] : i \in DOMAIN d.items}

\* dict.get(key, default): a repeated key keeps its last value
RECURSIVE dict_get(_, _, _)
dict_get(d, key, default) ==
    IF d.items = <<>> THEN default
    ELSE LET n == Len(d.items) IN
         IF d.items[n][1] = key THEN d.items[n][2]
         ELSE dict_get([d EXCEPT !.items = SubSeq(d.items, 1, n - 1)], key, default)

\* str(value) as an f-string renders it
Str(v) ==
    IF v.kind = "obj" THEN "{...}"
    ELSE IF v.kind = "arr" THEN "[...]"
    ELSE v.str

(***************************************************************************)
(* The universe of the model.                                              *)
(***************************************************************************)
Tenants == {"t1", "t2"}
Contacts == {"c1", "c2"}
\* user_id = None or "": `if user_id:` is false
NoUser == ""
Question == "How am I doing?"

VARIABLES
    \* ---- persistent state ----
    files,          \* the .txt files under data/instructions and data/promos
    tenantDirs,     \* the tenants whose data/instructions/<id> directory exists
    now,            \* the file system's clock (the granularity of a modification time)
    resolved,       \* the result of the last get_prompts call made on its own
    progress,       \* the rows of the customer_progress table, in insertion order
    baseIndex,      \* whether the foundational index exists on disk
    userIndex,      \* the tenants whose custom index exists on disk
    requests,       \* the number of get_contextual_response calls so far
    calls,          \* the last two calls of the tool functions made on their own
    \* ---- the transports ----
    session_locks,  \* whatsapp_adapter.session_locks: the holder of each sender's lock
    session_files,  \* data/sessions/<sender_id>.json: the stored user_data, or no file
    webhooks,       \* the calls of whatsapp_webhook: position, sender, message, user_data
    website_sessions, \* website_chat_router.website_sessions: session id -> chat_history
    websockets,     \* the calls of websocket_endpoint: position and tenant
    \* ---- the knowledge indexes on disk and their rebuilds ----
    index,          \* the state of each index directory
    rebuild,        \* the position of each index's rebuild
    observed,       \* what the last retrieval found of the index it read
    \* ---- the user accounts (database.py) ----
    users,          \* the users table: whether it is created, and its rows by username
    verifying,      \* the verify_user calls in progress, one per browser session
    returned,       \* the last call of add_user or verify_user that returned, and its result
    \* ---- one call of get_contextual_response ----
    pc,             \* the position of the call
    req,            \* its arguments
    prompts,        \* custom_instructions, formatted_history
    llm_calls,      \* the completions made so far: <<[prompt, content], ...>>
    response_text,  \* the first completion's content, stripped
    tool,           \* tool_name, parameters, result, and the tool functions entered
    retrieval,      \* knowledge_source, pending branches, all_results, unique_docs, final_docs, context
    outcome         \* how the call ended: the returned dict, or the exception raised

fsVars == <<files, tenantDirs, now, resolved>>
envVars == <<progress, baseIndex, userIndex, requests, calls>>
webVars == <<session_locks, session_files, webhooks, website_sessions, websockets>>
idxVars == <<index, rebuild, observed>>
dbVars == <<users, verifying, returned>>
callVars == <<pc, req, prompts, llm_calls, response_text, tool, retrieval, outcome>>
vars == <<files, tenantDirs, now, resolved, progress, baseIndex, userIndex,
          requests, calls, session_locks, session_files, webhooks, website_sessions,
          websockets, index, rebuild, observed, users, verifying, returned,
          pc, req, prompts, llm_calls, response_text, tool, retrieval, outcome>>

(***************************************************************************)
(* knowledge_manager: the instruction resolver.                            *)
(***************************************************************************)
INSTRUCTIONS_PATH == "instructions"
TenantDir(t) == <<INSTRUCTIONS_PATH, t>>
GlobalDir == <<INSTRUCTIONS_PATH>>
PromoDir ==
    LET
        PROMOS_PATH == "promos"
    IN
            <<PROMOS_PATH>>

DefaultInstructions == <<"You are a helpful general assistant.">>
DefaultPromotions == <<"There are no special promotions at this time.">>
PromoHeader == "\n\n[LATEST PROMOTIONS & OFFERS]\n"

\* os.path.exists(directory): app.startup_event creates data/instructions and data/promos
DirExists(directory) == directory \in {GlobalDir, PromoDir} \/ directory[2] \in tenantDirs

\* a slip of max(...): the first file listed, whatever its modification time
MaxByMtime_FirstListed(l) == l[1]

\* max(files, key=os.path.getmtime): the first of the largest, in the order given
RECURSIVE MaxByMtime(_)
MaxByMtime(l) ==
    IF Len(l) = 1 THEN l[1]
    ELSE LET m == MaxByMtime(Tail(l)) IN
         IF l[1].mtime >= m.mtime THEN l[1] ELSE m

IsTxt(f) == f.ext = ".txt"

\* _get_latest_file_content(directory), given the order of os.listdir's answer
\* and whether listing, stat and read succeed (an exception returns "")
get_latest_file_content(directory, listing, ioOk) ==
    IF ~DirExists(directory) THEN <<>>
    ELSE LET txt == SelectSeq(listing, IsTxt) IN
         IF txt = <<>> THEN <<>>
         ELSE IF ~ioOk THEN <<>>
         ELSE strip(MaxByMtime(txt).content)

\* a slip of get_prompts: line 203 forgotten, no default for the promotions
get_prompts_NoPromoDefault(user_id, env) ==
    LET tenantText ==
            IF user_id # NoUser /\ DirExists(TenantDir(user_id))
            THEN get_latest_file_content(TenantDir(user_id), env.tenantListing, env.tenantOk)
            ELSE <<>>
        instructions1 ==
            IF tenantText = <<>>
            THEN get_latest_file_content(GlobalDir, env.globalListing, env.globalOk)
            ELSE tenantText
        promotions == get_latest_file_content(PromoDir, env.promoListing, env.promoOk)
        instructions == IF instructions1 = <<>> THEN DefaultInstructions ELSE instructions1
    IN <<instructions \o <<PromoHeader>> \o promotions, <<>>>>

\* get_prompts(user_id): env gives, for each directory read, os.listdir's order
\* and whether the read succeeds
get_prompts(user_id, env) ==
    LET tenantText ==
            IF user_id # NoUser /\ DirExists(TenantDir(user_id))
            THEN get_latest_file_content(TenantDir(user_id), env.tenantListing, env.tenantOk)
            ELSE <<>>
        instructions1 ==
            IF tenantText = <<>>
            THEN get_latest_file_content(GlobalDir, env.globalListing, env.globalOk)
            ELSE tenantText
        promotions1 == get_latest_file_content(PromoDir, env.promoListing, env.promoOk)
        instructions == IF instructions1 = <<>> THEN DefaultInstructions ELSE instructions1
        promotions == IF promotions1 = <<>> THEN DefaultPromotions ELSE promotions1
    IN <<instructions \o <<PromoHeader>> \o promotions, <<>>>>

\* the environments of one get_prompts call
PromptEnvs(user_id) ==
    LET
        \* os.listdir(directory): the files of the directory and, in data/instructions,
        \* the tenants' subdirectories (their names carry no ".txt")
        DirEntries(directory) ==
            {f \in files : f.dir = directory}
            \cup (IF directory = GlobalDir
                  THEN {[dir |-> GlobalDir, base |-> t, ts |-> 0, ext |-> "", mtime |-> now,
                         content |-> <<>>] : t \in tenantDirs}
                  ELSE {})
    IN
    LET
        \* the orders in which os.listdir may list a directory
        Listings(directory) ==
            LET E == DirEntries(directory)
                n == Cardinality(E)
            IN {l \in [1..n -> E] : \A i, j \in 1..n : i # j => l[i] # l[j]}
    IN
    LET
        \* whether a read of the directory can fail: there is a .txt file to stat and open
        CanFail(directory) ==
            IF \E f \in DirEntries(directory) : IsTxt(f) THEN BOOLEAN ELSE {TRUE}
    IN
    [tenantListing : IF user_id = NoUser THEN {<<>>} ELSE Listings(TenantDir(user_id)),
     globalListing : Listings(GlobalDir),
     promoListing : Listings(PromoDir),
     tenantOk : IF user_id = NoUser THEN {TRUE} ELSE CanFail(TenantDir(user_id)),
     globalOk : CanFail(GlobalDir),
     promoOk : CanFail(PromoDir)]

(***************************************************************************)
(* agent_tools: the tools over the customer_progress table.                *)
(***************************************************************************)
LogParams == {"customer_contact", "user_id", "metric_name", "metric_value", "notes"}
LogRequired == {"customer_contact", "user_id", "metric_name", "metric_value"}
ReportParams == {"customer_contact", "user_id"}

\* f(**parameters) raises TypeError before f's body runs: parameters is no
\* mapping, names an argument f does not have, or lacks a required one
BindFails(parameters, allowed, required) ==
    \/ parameters.kind # "obj"
    \/ ~(Keys(parameters) \subseteq allowed)
    \/ ~(required \subseteq Keys(parameters))

\* sqlite3 binds text, numbers and None; a list or a dict raises in execute
Bindable(v) == v.kind \in {"str", "num", "null"}
\* the stored value; NULL is kept as ""
SqlValue(v) == IF v.kind = "null" THEN "" ELSE v.str

\* a slip of log_customer_data: INSERT OR REPLACE, one record per customer and metric
log_customer_data_Upsert(kw, dbOk, rows, t) ==
    LET customer_contact == dict_get(kw, "customer_contact", NoneVal)
        user_id == dict_get(kw, "user_id", NoneVal)
        metric_name == dict_get(kw, "metric_name", NoneVal)
        metric_value == dict_get(kw, "metric_value", NoneVal)
        notes == dict_get(kw, "notes", NoneVal)
        Other(r) == ~(/\ r.customer_contact = SqlValue(customer_contact)
                      /\ r.user_id = SqlValue(user_id)
                      /\ r.metric_name = SqlValue(metric_name))
    IN IF dbOk /\ \A v \in {customer_contact, user_id, metric_name, metric_value, notes} :
                      Bindable(v)
       THEN [result |-> <<"Successfully logged ", Str(metric_name), " as ",
                          Str(metric_value), " for the customer.">>,
             rows |-> Append(SelectSeq(rows, Other),
                             [customer_contact |-> SqlValue(customer_contact),
                              user_id |-> SqlValue(user_id),
                              metric_name |-> SqlValue(metric_name),
                              metric_value |-> SqlValue(metric_value),
                              notes |-> SqlValue(notes),
                              log_time |-> t])]
       ELSE [result |-> <<"Failed to log data: ", "sqlite3.Error">>, rows |-> rows]

\* log_customer_data(**kw): dbOk tells whether connect, execute and commit
\* succeed; t is the row's log_time.  Returns the message and the table.
log_customer_data(kw, dbOk, rows, t) ==
    LET customer_contact == dict_get(kw, "customer_contact", NoneVal)
        user_id == dict_get(kw, "user_id", NoneVal)
        metric_name == dict_get(kw, "metric_name", NoneVal)
        metric_value == dict_get(kw, "metric_value", NoneVal)
        notes == dict_get(kw, "notes", NoneVal)
    IN IF dbOk /\ \A v \in {customer_contact, user_id, metric_name, metric_value, notes} :
                      Bindable(v)
       THEN [result |-> <<"Successfully logged ", Str(metric_name), " as ",
                          Str(metric_value), " for the customer.">>,
             rows |-> Append(rows, [customer_contact |-> SqlValue(customer_contact),
                                    user_id |-> SqlValue(user_id),
                                    metric_name |-> SqlValue(metric_name),
                                    metric_value |-> SqlValue(metric_value),
                                    notes |-> SqlValue(notes),
                                    log_time |-> t])]
       ELSE [result |-> <<"Failed to log data: ", "sqlite3.Error">>, rows |-> rows]

\* SELECT ... WHERE customer_contact = ? AND user_id = ? ORDER BY log_time DESC
RECURSIVE SelectDesc(_, _, _)
\* a slip of the SELECT: the tenant left out of the WHERE clause
SelectDesc_AnyTenant(rows, cc, uid) ==
    LET sel == SelectSeq(rows, LAMBDA r : r.customer_contact = cc /\ cc # "")
    IN [i \in DOMAIN sel |-> sel[Len(sel) + 1 - i]]

SelectDesc(rows, cc, uid) ==
    IF rows = <<>> THEN <<>>
    ELSE LET r == Last(rows)
             rest == SelectDesc(SubSeq(rows, 1, Len(rows) - 1), cc, uid)
         IN IF r.customer_contact = cc /\ r.user_id = uid /\ cc # "" /\ uid # ""
            THEN <<r>> \o rest ELSE rest

RECURSIVE ReportLines(_)
ReportLines(records) ==
    IF records = <<>> THEN <<>>
    ELSE LET r == Head(records)
             notes_str == IF r.notes # "" THEN <<" (Notes: ", r.notes, ")">> ELSE <<>>
         IN <<"- On ", ToString(r.log_time), ": ", r.metric_name, " was ", r.metric_value>>
            \o notes_str \o <<"\n">> \o ReportLines(Tail(records))

\* a slip of generate_progress_report: each report is itself logged as a record
generate_progress_report_LogsItself(kw, dbOk, rows) ==
    LET customer_contact == dict_get(kw, "customer_contact", NoneVal)
        user_id == dict_get(kw, "user_id", NoneVal)
        records == SelectDesc(rows, SqlValue(customer_contact), SqlValue(user_id))
    IN IF dbOk /\ Bindable(customer_contact) /\ Bindable(user_id)
       THEN [result |-> IF records = <<>>
                        THEN <<"No progress has been logged for this customer yet.">>
                        ELSE <<"Here is the customer's progress report so far:\n">>
                             \o ReportLines(records),
             rows |-> Append(rows, [customer_contact |-> SqlValue(customer_contact),
                                    user_id |-> SqlValue(user_id),
                                    metric_name |-> "Report", metric_value |-> "sent",
                                    notes |-> "", log_time |-> Len(rows) + 1])]
       ELSE [result |-> <<"Failed to generate report: ", "sqlite3.Error">>, rows |-> rows]

\* generate_progress_report(**kw); it leaves the table alone
generate_progress_report(kw, dbOk, rows) ==
    LET customer_contact == dict_get(kw, "customer_contact", NoneVal)
        user_id == dict_get(kw, "user_id", NoneVal)
        records == SelectDesc(rows, SqlValue(customer_contact), SqlValue(user_id))
    IN IF dbOk /\ Bindable(customer_contact) /\ Bindable(user_id)
       THEN [result |-> IF records = <<>>
                        THEN <<"No progress has been logged for this customer yet.">>
                        ELSE <<"Here is the customer's progress report so far:\n">>
                             \o ReportLines(records),
             rows |-> rows]
       ELSE [result |-> <<"Failed to generate report: ", "sqlite3.Error">>, rows |-> rows]

\* the customers of a tenant that have records, ORDER BY customer_contact
RECURSIVE ContactsOf(_, _)
ContactsOf(rows, uid) ==
    LET
        \* the order of the customer contacts as text
        ContactOrder == {<<"c1", "c2">>}
    IN
    LET S == {rows[i].customer_contact : i \in {j \in DOMAIN rows : rows[j].user_id = uid}}
    IN IF S = {} THEN <<>>
       ELSE LET c == CHOOSE x \in S : \A y \in S : x = y \/ <<x, y>> \in ContactOrder
            IN <<c>> \o ContactsOf(SelectSeq(rows, LAMBDA r : r.customer_contact # c), uid)

(***************************************************************************)
(* rag: prompts, history and passages.                                     *)
(***************************************************************************)
CORE_BEHAVIOR_INSTRUCTIONS == <<"**1. Your Persona: Eva**", "**2. THE GOLDEN RULE**",
                                "**3. THE CONSULTATIVE SALES FUNNEL**", "**5. Style Guide**">>

\* RAG_PROMPT_TEMPLATE.format(...)
RAG_PROMPT(core_instructions, custom_instructions, context, chat_history, question, customer_contact, user_id) ==
    <<"**Role:** You are Eva", "**Core Persona & Sales Instructions**">>
    \o core_instructions
    \o <<"**Client's Custom Persona Instructions**">>
    \o custom_instructions
    \o <<"**PRIMARY OBJECTIVE: TOOL USE FOR PROGRESS TRACKING**", "**Available Tools:**",
         "log_customer_data", "generate_progress_report", "**How to Use Tools:**",
         "**Tool-Use Examples:**", customer_contact, user_id, customer_contact, user_id,
         "**CONVERSATIONAL ADIME FRAMEWORK**",
         "[CONTEXTUAL KNOWLEDGE BASE (Your source of truth with citations)]">>
    \o context
    \o <<"[CURRENT CONVERSATION (Your short-term memory)]">>
    \o chat_history
    \o <<"[USER'S LATEST MESSAGE]", "Question: ", question,
         "[YOUR RESPONSE (Either a JSON tool call or a conversational message)]">>

\* str.capitalize() of a role
capitalize(role) ==
    IF role = "user" THEN "User" ELSE IF role = "assistant" THEN "Assistant" ELSE role

RECURSIVE JoinLines(_)
JoinLines(msgs) ==
    IF msgs = <<>> THEN <<>>
    ELSE IF Len(msgs) = 1 THEN Head(msgs)
    ELSE Head(msgs) \o <<"\n">> \o JoinLines(Tail(msgs))

\* a slip of the formatting: line 109 forgotten, an empty history joins to ""
format_chat_history_NoPlaceholder(chat_history) ==
    JoinLines([i \in DOMAIN chat_history |->
                  <<capitalize(chat_history[i].role), ": ", chat_history[i].content>>])

\* format_chat_history(chat_history): lines 108-111
format_chat_history(chat_history) ==
    IF chat_history = <<>> THEN <<"No conversation history yet.">>
    ELSE JoinLines([i \in DOMAIN chat_history |->
                       <<capitalize(chat_history[i].role), ": ", chat_history[i].content>>])

Histories == {<<>>, <<[role |-> "user", content |-> "hi"],
                      [role |-> "assistant", content |-> "hello"]>>}

\* passages: Document(page_content, metadata = {source, page?}); page "" is no page
Doc(text, path, page) == [page_content |-> text, source |-> path, page |-> page]
GuidePdf == <<"data", "base_documents", "guide.pdf">>
NotesDocx == <<"temp_uploads", "notes.docx">>
BaseDocs == {Doc("x1", GuidePdf, "1"), Doc("x1", GuidePdf, "2"), Doc("x2", GuidePdf, "1")}
UserDocs == {Doc("x1", NotesDocx, ""), Doc("x2", NotesDocx, "")}

SeqsUpTo(S, n) == UNION {[1..k -> S] : k \in 0..n}

\* [doc for sublist in all_results for doc in sublist]
RECURSIVE Flatten(_)
Flatten(lists) == IF lists = <<>> THEN <<>> ELSE Head(lists) \o Flatten(Tail(lists))

\* list({doc.page_content: doc for doc in docs}.values()): a key stands where it
\* was first inserted and holds the value last assigned to it
LastWith(docs, text) ==
    docs[CHOOSE i \in DOMAIN docs :
            /\ docs[i].page_content = text
            /\ \A j \in DOMAIN docs : docs[j].page_content = text => j <= i]

RECURSIVE DictKeys(_, _)
DictKeys(docs, seen) ==
    IF docs = <<>> THEN <<>>
    ELSE IF Head(docs).page_content \in seen THEN DictKeys(Tail(docs), seen)
    ELSE <<Head(docs).page_content>>
         \o DictKeys(Tail(docs), seen \cup {Head(docs).page_content})

\* a slip of the deduplication: the concatenation as it is
UniqueDocs_NoDedup(docs) == docs

\* a slip of the deduplication: a text stands where it occurred last
Reverse(docs) == [i \in DOMAIN docs |-> docs[Len(docs) + 1 - i]]
UniqueDocs_LastSeenOrder(docs) ==
    LET keys == Reverse(DictKeys(Reverse(docs), {}))
    IN [i \in DOMAIN keys |-> LastWith(docs, keys[i])]

\* a slip of the deduplication: a text keeps the passage of its first occurrence
UniqueDocs_FirstMetadata(docs) ==
    LET keys == DictKeys(docs, {})
    IN [i \in DOMAIN keys |->
           docs[CHOOSE k \in DOMAIN docs :
                   /\ docs[k].page_content = keys[i]
                   /\ \A j \in 1..(k - 1) : docs[j].page_content # keys[i]]]

UniqueDocs(docs) ==
    LET keys == DictKeys(docs, {}) IN [i \in DOMAIN keys |-> LastWith(docs, keys[i])]

\* os.path.basename
basename(path) == IF path = <<>> THEN "Unknown" ELSE Last(path)

ContextPart(doc) ==
    <<"Source: ", basename(doc.source), ", Page: ", IF doc.page = "" THEN "N/A" ELSE doc.page,
      "\nContent: ", doc.page_content>>

RECURSIVE JoinParts(_)
JoinParts(parts) ==
    IF parts = <<>> THEN <<>>
    ELSE IF Len(parts) = 1 THEN Head(parts)
    ELSE Head(parts) \o <<"\n\n---\n\n">> \o JoinParts(Tail(parts))

\* a slip of the context: line 190 without its else, an empty join is left empty
FormatContext_NoSentinel(final_docs) ==
    JoinParts([i \in DOMAIN final_docs |-> ContextPart(final_docs[i])])

FormatContext(final_docs) ==
    IF final_docs = <<>> THEN <<"No relevant information found after compression.">>
    ELSE JoinParts([i \in DOMAIN final_docs |-> ContextPart(final_docs[i])])

\* LLMChainExtractor: each passage is kept whole, cut to its relevant part, or dropped
Extract(text) == IF text = "x1" THEN "x1 (relevant part)" ELSE "x2 (relevant part)"

RECURSIVE Compressed(_, _)
Compressed(docs, choice) ==
    IF docs = <<>> THEN <<>>
    ELSE LET d == Head(docs)
             rest == Compressed(Tail(docs), Tail(choice))
         IN IF Head(choice) = "drop" THEN rest
            ELSE IF Head(choice) = "cut"
                 THEN <<[d EXCEPT !.page_content = Extract(d.page_content)]>> \o rest
            ELSE <<d>> \o rest

(***************************************************************************)
(* What the language model may answer.                                     *)
(***************************************************************************)
ToolCall(name, parameters) ==
    <<"{", "tool_name", ":", name, ",", "parameters", ":">> \o parameters \o <<"}">>

LogArgs(cc, uid, value) ==
    <<"{", "customer_contact", ":", cc, ",", "user_id", ":", uid, ",",
      "metric_name", ":", "Weight", ",", "metric_value", ":">> \o value
    \o <<",", "notes", ":", "Morning weigh-in", "}">>

ReportArgs(cc, uid) == <<"{", "customer_contact", ":", cc, ",", "user_id", ":", uid>>

BadJson == <<"{", "not", "json", "}">>
LogCall(cc, uid) == <<WS>> \o ToolCall("log_customer_data", LogArgs(cc, uid, <<"82.5kg">>)) \o <<WS>>
ReportCall(cc, uid) == ToolCall("generate_progress_report", ReportArgs(cc, uid) \o <<"}">>)
WrongType(cc, uid) == ToolCall("log_customer_data", LogArgs(cc, uid, <<"[", "7", "]">>))

Answers == {<<"Here is what the guidelines say.">>}

(***************************************************************************)
(* The state after construction.                                           *)
(***************************************************************************)
NoOutcome == [kind |-> "none", answer |-> <<>>, sources |-> <<>>,
              knowledge_source |-> "", exc |-> ""]

Returned(answer, sources, knowledge_source) ==
    [kind |-> "returned", answer |-> answer, sources |-> sources,
     knowledge_source |-> knowledge_source, exc |-> ""]

NoReq == [user_question |-> "", chat_history |-> <<>>, user_id |-> NoUser,
          customer_contact |-> ""]

NoPrompts == [custom_instructions |-> <<>>, formatted_history |-> <<>>, agent_prompt |-> <<>>]
NoTool == [detected |-> FALSE, tool_name |-> NoneVal, parameters |-> NoneVal,
           result |-> <<>>, ran |-> <<>>, second_prompt |-> <<>>]

NoRetrieval == [knowledge_source |-> "", pending |-> {}, base |-> <<>>, user |-> <<>>,
                tasks |-> <<>>, finished |-> <<>>, unique_docs |-> <<>>, final_docs |-> <<>>,
                context |-> <<>>, final_prompt |-> <<>>]

\* the get_prompts call before the last one, when it was for the same tenant and
\* no file changed in between
NoPrevious == [called |-> FALSE, user_id |-> NoUser, readsOk |-> FALSE, text |-> <<>>]
NoResolved == [called |-> FALSE, user_id |-> NoUser, tenantOk |-> FALSE, globalOk |-> FALSE,
               promoOk |-> FALSE, text |-> <<>>, promotions |-> <<>>, previous |-> NoPrevious]

\* the transports: senders of WhatsApp messages, webhook calls, WebSocket connections
Senders == {"s1", "s2"}
Handlers == 1..MaxWebhooks
Connections == 1..MaxConnections

\* load_user_session's default structure for a new user (whatsapp_adapter.py:48-53)
DefaultSession == [chat_history |-> <<>>, visit_count |-> 0, last_visit_timestamp |-> "None",
                   intent_summary |-> "No interactions yet."]

\* a session saved by an earlier visit; its timestamp is less than 30 minutes old or older
StoredSession(last_visit) ==
    [chat_history |-> <<<<"hi", "hello">>>>, visit_count |-> 1,
     last_visit_timestamp |-> last_visit, intent_summary |-> "No interactions yet."]

NoFile == [exists |-> FALSE, data |-> DefaultSession]
File(data) == [exists |-> TRUE, data |-> data]

NoWebhook == [pc |-> "new", sender |-> "", body |-> <<>>, user_data |-> DefaultSession,
              status |-> 0, with |-> {}]

NoWebsiteSession == [exists |-> FALSE, chat_history |-> <<>>]
NoWebsocket == [pc |-> "new", user_id |-> NoUser, messages |-> 0]

WebInit ==
    /\ session_locks = [s \in Senders |-> 0]
    /\ session_files = [s \in Senders |-> NoFile]
    /\ webhooks = [h \in Handlers |-> NoWebhook]
    /\ website_sessions = [c \in Connections |-> NoWebsiteSession]
    /\ websockets = [c \in Connections |-> NoWebsocket]

\* the index directories: chroma_db (vector_store.CHROMA_PATH) and a tenant's
\* directory under USER_DB_PATH
Stores == {"base", "t1"}
\* each index is complete, built by an earlier run; no rebuild is running
IdxInit ==
    LET
        NoObserved == [store |-> "", saw |-> "", rebuilding |-> FALSE]
    IN
    /\ index = [s \in Stores |-> "old"]
    /\ rebuild = [s \in Stores |-> "idle"]
    /\ observed = NoObserved

\* the accounts: usernames, the keys secrets.token_hex may draw, and the
\* browser sessions of the Streamlit UI, each run in its own thread
Usernames == {"u1", "u2"}
VerificationKeys == {"k1", "k2"}
BrowserSessions == {"b1", "b2"}
Null == "NULL"
NoVerify == [pc |-> "idle", username |-> "", verification_key |-> "", user |-> "None"]
\* users.db before database.py is run as a script: no table yet
DbInit ==
    LET
        NoRow == [exists |-> FALSE, verification_key |-> Null, is_verified |-> FALSE]
    IN
    LET
        NoReturn == [fn |-> "", username |-> "", result |-> ""]
    IN
    /\ users = [created |-> FALSE, rows |-> [u \in Usernames |-> NoRow]]
    /\ verifying = [b \in BrowserSessions |-> NoVerify]
    /\ returned = NoReturn

CallInit ==
    /\ pc = "idle"
    /\ req = NoReq
    /\ prompts = NoPrompts
    /\ llm_calls = <<>>
    /\ response_text = <<>>
    /\ tool = NoTool
    /\ retrieval = NoRetrieval
    /\ outcome = NoOutcome

FsInit ==
    /\ files = {}
    /\ tenantDirs = {}
    /\ now = 1
    /\ resolved = NoResolved

Init ==
    /\ FsInit
    /\ CallInit
    /\ progress = <<>>
    /\ baseIndex \in BOOLEAN
    /\ userIndex \in {{}, {"t1"}}
    /\ requests = 0
    /\ calls = <<>>
    /\ WebInit
    /\ IdxInit
    /\ DbInit

(***************************************************************************)
(* get_contextual_response, one action per stretch between two awaits.     *)
(***************************************************************************)
\* an exception leaves the coroutine: nothing in rag.py catches it
Propagate(exc) ==
    /\ outcome' = [kind |-> "raised", answer |-> <<>>, sources |-> <<>>,
                   knowledge_source |-> "", exc |-> exc]
    /\ pc' = "done"

\* lines 118-138: get_llm(), get_prompts, format_chat_history, the agent prompt
Invoke(user_id, customer_contact, chat_history) ==
    /\ pc = "idle"
    /\ requests < MaxRequests
    /\ requests' = requests + 1
    /\ req' = [user_question |-> Question, chat_history |-> chat_history,
               user_id |-> user_id, customer_contact |-> customer_contact]
    /\ \/ \* get_llm() raises (llm.py:37-39)
          /\ Propagate("get_llm")
          /\ UNCHANGED prompts
       \/ \E env \in PromptEnvs(user_id) :
            LET custom_instructions == get_prompts(user_id, env)[1]
                formatted_history == format_chat_history(chat_history)
            IN /\ prompts' = [custom_instructions |-> custom_instructions,
                              formatted_history |-> formatted_history,
                              agent_prompt |->
                                  RAG_PROMPT(CORE_BEHAVIOR_INSTRUCTIONS, custom_instructions,
                                             <<"No context needed for this step.">>,
                                             formatted_history, Question,
                                             customer_contact, user_id)]
               /\ pc' = "first_llm"
               /\ UNCHANGED outcome
    /\ UNCHANGED <<llm_calls, response_text, tool, retrieval, progress, baseIndex, userIndex>>
    /\ UNCHANGED <<calls, fsVars, webVars, idxVars, dbVars>>

Binds(args) ==
    LET
        \* line 118: the four parameters, none with a default; a call binds its
        \* positional arguments to them or raises TypeError before the body runs
        Parameters == <<"user_question", "chat_history", "user_id", "customer_contact">>
    IN
               Len(args) = Len(Parameters)

\* what req records for a parameter that got no argument
Missing == "<missing>"
\* a call whose arguments do not bind, as get_contextual_response(user_message,
\* chat_history, user_id) of website_chat_router.py:40, ui.py:176 and test_cli.py:44
InvokeUnbound(args) ==
    LET
        Arg(given, i) == IF i <= Len(given) THEN given[i] ELSE Missing
    IN
    /\ pc = "idle"
    /\ requests < MaxRequests
    /\ ~Binds(args)
    /\ requests' = requests + 1
    /\ req' = [user_question |-> Arg(args, 1), chat_history |-> Arg(args, 2),
               user_id |-> Arg(args, 3), customer_contact |-> Arg(args, 4)]
    /\ Propagate("TypeError")
    /\ UNCHANGED <<prompts, llm_calls, response_text, tool, retrieval>>
    /\ UNCHANGED <<progress, baseIndex, userIndex, calls, fsVars, webVars, idxVars, dbVars>>

\* lines 140-141: the first completion
FirstCompletion ==
    LET
        PlainText == <<"Hello", WS>>
    IN
    LET
        OpenBrace == <<"{", "this", "is", "not", "json">>
    IN
    LET
        UnknownTool == ToolCall("delete_all_data", <<"{", "}">>)
    IN
    LET
        NoToolName == <<"{", "answer", ":", "Hi there", "}">>
    IN
    LET
        ParamsNotMapping == ToolCall("log_customer_data", <<"82.5kg">>)
    IN
    LET
        MissingParams(cc) == ToolCall("log_customer_data", <<"{", "customer_contact", ":", cc, "}">>)
    IN
    LET
        ExtraParams(cc, uid) ==
            ToolCall("generate_progress_report",
                     ReportArgs(cc, uid) \o <<",", "period", ":", "month", "}">>)
    IN
    LET
        \* the contents the first completion may have, for a request of customer cc of tenant uid
        RawOutputs(cc, uid) ==
            {PlainText, OpenBrace, BadJson, LogCall(cc, uid), ReportCall(cc, uid), UnknownTool,
             NoToolName, ParamsNotMapping, MissingParams(cc), ExtraParams(cc, uid),
             WrongType(cc, uid)}
    IN
    /\ pc = "first_llm"
    /\ \/ /\ Propagate("ModelUnavailable")
          /\ UNCHANGED <<llm_calls, response_text>>
       \/ \E content \in RawOutputs(req.customer_contact, req.user_id) :
            /\ llm_calls' = Append(llm_calls, [prompt |-> prompts.agent_prompt,
                                               content |-> content])
            /\ response_text' = strip(content)
            /\ pc' = "interpret"
            /\ UNCHANGED outcome
    /\ UNCHANGED <<req, prompts, tool, retrieval>>
    /\ UNCHANGED <<envVars, fsVars, webVars, idxVars, dbVars>>

\* line 144 and json.loads of line 146
LooksLikeJson(text) ==
    LET
        startswith(s, t) == s # <<>> /\ Head(s) = t
    IN
    LET
        endswith(s, t) == s # <<>> /\ Last(s) = t
    IN
                       startswith(text, "{") /\ endswith(text, "}")

\* a slip of the detection: the braces alone decide
IsToolCall_BracesOnly(text) == LooksLikeJson(text)
IsToolCall(text) == LooksLikeJson(text) /\ json_loads(text).ok

\* a slip of the dispatch: a name that is no tool's is looked up and the lookup raises
Dispatch_UnknownRaises(tool_name, parameters, dbOk, rows, t) ==
    IF tool_name = Scalar("str", "log_customer_data") THEN
        IF BindFails(parameters, LogParams, LogRequired)
        THEN [raised |-> TRUE, result |-> <<>>, rows |-> rows, ran |-> <<>>]
        ELSE LET r == log_customer_data(parameters, dbOk, rows, t)
             IN [raised |-> FALSE, result |-> r.result, rows |-> r.rows,
                 ran |-> <<"log_customer_data">>]
    ELSE IF tool_name = Scalar("str", "generate_progress_report") THEN
        IF BindFails(parameters, ReportParams, ReportParams)
        THEN [raised |-> TRUE, result |-> <<>>, rows |-> rows, ran |-> <<>>]
        ELSE LET r == generate_progress_report(parameters, dbOk, rows)
             IN [raised |-> FALSE, result |-> r.result, rows |-> r.rows,
                 ran |-> <<"generate_progress_report">>]
    ELSE [raised |-> TRUE, result |-> <<>>, rows |-> rows, ran |-> <<>>]

\* lines 152-157: the dispatch on tool_name.  raised tells that the call of the
\* tool function itself raised (TypeError of the ** call)
Dispatch(tool_name, parameters, dbOk, rows, t) ==
    IF tool_name = Scalar("str", "log_customer_data") THEN
        IF BindFails(parameters, LogParams, LogRequired)
        THEN [raised |-> TRUE, result |-> <<>>, rows |-> rows, ran |-> <<>>]
        ELSE LET r == log_customer_data(parameters, dbOk, rows, t)
             IN [raised |-> FALSE, result |-> r.result, rows |-> r.rows,
                 ran |-> <<"log_customer_data">>]
    ELSE IF tool_name = Scalar("str", "generate_progress_report") THEN
        IF BindFails(parameters, ReportParams, ReportParams)
        THEN [raised |-> TRUE, result |-> <<>>, rows |-> rows, ran |-> <<>>]
        ELSE LET r == generate_progress_report(parameters, dbOk, rows)
             IN [raised |-> FALSE, result |-> r.result, rows |-> r.rows,
                 ran |-> <<"generate_progress_report">>]
    ELSE [raised |-> FALSE, result |-> <<"Unknown tool.">>, rows |-> rows, ran |-> <<>>]

\* lines 144-160, the text parses: tool_name, parameters, the dispatch, the second prompt
ToolDetected ==
    LET
        \* the second prompt of the tool path (an f-string)
        SecondPrompt(user_question, tool_name, result) ==
            <<"The user's last message was: '", user_question, "'. You used the tool '",
              Str(tool_name), "' and got this result: '">>
            \o result
            \o <<"'. Now, provide a short, friendly, and encouraging response">>
    IN
    /\ pc = "interpret"
    /\ IsToolCall(response_text)
    /\ LET tool_call == json_loads(response_text).val
           tool_name == dict_get(tool_call, "tool_name", NoneVal)
           parameters == dict_get(tool_call, "parameters", EmptyDict)
       IN \E dbOk \in BOOLEAN :
            LET d == Dispatch(tool_name, parameters, dbOk, progress, requests)
                t == [detected |-> TRUE, tool_name |-> tool_name, parameters |-> parameters,
                      result |-> d.result, ran |-> d.ran,
                      second_prompt |-> SecondPrompt(req.user_question, tool_name, d.result)]
            IN /\ progress' = d.rows
               /\ IF d.raised
                  THEN /\ Propagate("TypeError")
                       /\ tool' = [t EXCEPT !.second_prompt = <<>>]
                  ELSE /\ pc' = "second_llm"
                       /\ tool' = t
                       /\ UNCHANGED outcome
    /\ UNCHANGED <<req, prompts, llm_calls, response_text, retrieval>>
    /\ UNCHANGED <<baseIndex, userIndex, requests, calls, fsVars, webVars, idxVars, dbVars>>

\* a slip of the fall-through: the first output is returned as the answer
NotAToolCall_ReturnsRaw ==
    /\ pc = "interpret"
    /\ ~IsToolCall(response_text)
    /\ outcome' = Returned(response_text, <<>>, "Foundational")
    /\ pc' = "done"
    /\ UNCHANGED <<req, prompts, llm_calls, response_text, tool, retrieval>>
    /\ UNCHANGED <<envVars, fsVars, webVars, idxVars, dbVars>>

\* lines 144-166, no braces or json.JSONDecodeError: proceed to retrieval
NotAToolCall ==
    /\ pc = "interpret"
    /\ ~IsToolCall(response_text)
    /\ pc' = "retrieve"
    /\ UNCHANGED <<req, prompts, llm_calls, response_text, tool, retrieval, outcome>>
    /\ UNCHANGED <<envVars, fsVars, webVars, idxVars, dbVars>>

\* lines 161-163: the second completion and the return of the tool path
SecondCompletion ==
    LET
        \* the content of a phrasing completion and of a final completion
        Phrasings == {<<"That's great, I've logged that for you!">>}
    IN
    /\ pc = "second_llm"
    /\ \/ /\ Propagate("ModelUnavailable")
          /\ UNCHANGED llm_calls
       \/ \E content \in Phrasings :
            /\ llm_calls' = Append(llm_calls, [prompt |-> tool.second_prompt,
                                               content |-> content])
            /\ outcome' = Returned(content, <<>>, "Agent Tool")
            /\ pc' = "done"
    /\ UNCHANGED <<req, prompts, response_text, tool, retrieval>>
    /\ UNCHANGED <<envVars, fsVars, webVars, idxVars, dbVars>>

\* a slip of the label: line 175 forgotten
KnowledgeSource_Forgotten(user_retriever) == "Foundational"
KnowledgeSource(user_retriever) ==
    IF user_retriever # "None" THEN "Custom + Foundational" ELSE "Foundational"

\* vector_store.get_user_retriever(user_id): None when the tenant has no index
get_user_retriever(user_id) == IF user_id \in userIndex THEN "retriever" ELSE "None"

\* vector_store.get_base_retriever(): the outcomes it may have.  With no
\* foundational index on disk it fails with KnowledgeBaseMissing, or opens an
\* empty store that finds nothing (as Chroma(persist_directory=...) does)
get_base_retriever ==
    IF baseIndex THEN {"retriever"} ELSE {"KnowledgeBaseMissing", "empty"}

\* lines 169-177: the retrievers, the tasks, the label; gather starts the tasks
StartRetrieval ==
    LET
        \* lines 171-175: the tasks and the label
        RetrievalTasks(user_retriever) ==
            IF user_retriever # "None" THEN <<"base", "user">> ELSE <<"base">>
    IN
    /\ pc = "retrieve"
    /\ \E base_retriever \in get_base_retriever :
          IF base_retriever = "KnowledgeBaseMissing"
          THEN /\ Propagate("KnowledgeBaseMissing")
               /\ UNCHANGED retrieval
          ELSE LET user_retriever == get_user_retriever(req.user_id)
                   tasks == RetrievalTasks(user_retriever)
               IN /\ retrieval' = [retrieval EXCEPT
                                     !.knowledge_source = KnowledgeSource(user_retriever),
                                     !.tasks = tasks,
                                     !.pending = {tasks[i] : i \in DOMAIN tasks}]
                  /\ pc' = "gather"
                  /\ UNCHANGED outcome
    /\ UNCHANGED <<req, prompts, llm_calls, response_text, tool>>
    /\ UNCHANGED <<envVars, fsVars, webVars, idxVars, dbVars>>

\* line 177: one branch of the gather completes, or raises and the gather with it
BranchDone(branch) ==
    LET
        \* what a branch may return: at most MaxDocs passages of its index
        BranchResults(b) ==
            IF b = "base"
            THEN (IF baseIndex THEN SeqsUpTo(BaseDocs, MaxDocs) ELSE {<<>>})
            ELSE SeqsUpTo(UserDocs, MaxDocs)
    IN
    /\ pc = "gather"
    /\ branch \in retrieval.pending
    /\ \/ /\ Propagate("RetrievalError")
          /\ UNCHANGED retrieval
       \/ \E docs \in BranchResults(branch) :
            /\ retrieval' = [retrieval EXCEPT ![branch] = docs,
                                              !.pending = @ \ {branch},
                                              !.finished = Append(@, branch)]
            /\ UNCHANGED <<pc, outcome>>
    /\ UNCHANGED <<req, prompts, llm_calls, response_text, tool>>
    /\ UNCHANGED <<envVars, fsVars, webVars, idxVars, dbVars>>

\* a slip of the join: the results in the order the branches completed
AllResults_AsCompleted(r) == [i \in DOMAIN r.finished |-> r[r.finished[i]]]

\* line 177: the results of the gather, in the order of the tasks
AllResults(r) == [i \in DOMAIN r.tasks |-> r[r.tasks[i]]]

\* a slip of the final prompt: the placeholder of the first prompt is left in
FinalPrompt_NoContext(context) ==
    RAG_PROMPT(CORE_BEHAVIOR_INSTRUCTIONS, prompts.custom_instructions,
               <<"No context needed for this step.">>,
               prompts.formatted_history, req.user_question, req.customer_contact,
               req.user_id)

FinalPrompt(context) ==
    RAG_PROMPT(CORE_BEHAVIOR_INSTRUCTIONS, prompts.custom_instructions, context,
               prompts.formatted_history, req.user_question, req.customer_contact,
               req.user_id)

\* lines 177-183 and 192-200: the gather is complete; merge and deduplicate
Merge ==
    /\ pc = "gather"
    /\ retrieval.pending = {}
    /\ LET all_retrieved_docs == Flatten(AllResults(retrieval))
           unique_docs == UniqueDocs(all_retrieved_docs)
       IN IF unique_docs = <<>>
          THEN LET context == <<"No information found on this topic.">>
               IN /\ retrieval' = [retrieval EXCEPT !.unique_docs = unique_docs,
                                                    !.final_docs = <<>>,
                                                    !.context = context,
                                                    !.final_prompt = FinalPrompt(context)]
                  /\ pc' = "final_llm"
          ELSE /\ retrieval' = [retrieval EXCEPT !.unique_docs = unique_docs]
               /\ pc' = "compress"
    /\ UNCHANGED <<req, prompts, llm_calls, response_text, tool, outcome>>
    /\ UNCHANGED <<envVars, fsVars, webVars, idxVars, dbVars>>

\* lines 185-200: the compression pass, the context, the final prompt
Compress ==
    /\ pc = "compress"
    /\ \/ /\ Propagate("CompressionError")
          /\ UNCHANGED retrieval
       \/ \E choice \in [DOMAIN retrieval.unique_docs -> {"keep", "cut", "drop"}] :
            LET final_docs == Compressed(retrieval.unique_docs, choice)
                context == FormatContext(final_docs)
            IN /\ retrieval' = [retrieval EXCEPT !.final_docs = final_docs,
                                                 !.context = context,
                                                 !.final_prompt = FinalPrompt(context)]
               /\ pc' = "final_llm"
               /\ UNCHANGED outcome
    /\ UNCHANGED <<req, prompts, llm_calls, response_text, tool>>
    /\ UNCHANGED <<envVars, fsVars, webVars, idxVars, dbVars>>

\* lines 202-208: the final completion and the return of the retrieval path
FinalCompletion ==
    /\ pc = "final_llm"
    /\ \/ /\ Propagate("ModelUnavailable")
          /\ UNCHANGED llm_calls
       \/ \E content \in Answers :
            /\ llm_calls' = Append(llm_calls, [prompt |-> retrieval.final_prompt,
                                               content |-> content])
            /\ outcome' = Returned(content, retrieval.final_docs,
                                   retrieval.knowledge_source)
            /\ pc' = "done"
    /\ UNCHANGED <<req, prompts, response_text, tool, retrieval>>
    /\ UNCHANGED <<envVars, fsVars, webVars, idxVars, dbVars>>

\* the caller has the result (or the exception); the next call starts afresh
Finish ==
    /\ pc = "done"
    /\ pc' = "idle"
    /\ req' = NoReq
    /\ prompts' = NoPrompts
    /\ llm_calls' = <<>>
    /\ response_text' = <<>>
    /\ tool' = NoTool
    /\ retrieval' = NoRetrieval
    /\ outcome' = NoOutcome
    /\ UNCHANGED <<envVars, fsVars, webVars, idxVars, dbVars>>

Next ==
    \/ \E user_id \in Tenants, chat_history \in Histories : Invoke(user_id, "c1", chat_history)
    \/ \E user_id \in Tenants, chat_history \in Histories :
          InvokeUnbound(<<Question, chat_history, user_id>>)
    \/ FirstCompletion
    \/ ToolDetected
    \/ NotAToolCall
    \/ SecondCompletion
    \/ StartRetrieval
    \/ \E branch \in {"base", "user"} : BranchDone(branch)
    \/ Merge
    \/ Compress
    \/ FinalCompletion
    \/ Finish

Spec == Init /\ [][Next]_vars

(***************************************************************************)
(* The tool path: requests whose first completion is a call of a tool, the *)
(* identifiers in it written by the model.                                 *)
(***************************************************************************)
\* rag.py:140-141: the first completion, its content a call of a tool
FirstCompletionToolCall ==
    LET
        \* the model writes the identifiers itself: it may copy them from the prompt's
        \* examples or write those of another customer or tenant
        OtherContact(cc) == CHOOSE c \in Contacts : c # cc
    IN
    LET
        OtherTenant(uid) == CHOOSE t \in Tenants : t # uid
    IN
    LET
        \* tool calls that name another customer or another tenant than the request's
        ForeignOutputs(cc, uid) == {LogCall(OtherContact(cc), uid), ReportCall(cc, OtherTenant(uid))}
    IN
    LET
        \* the contents that are calls of one of the two tools
        ToolOutputs(cc, uid) ==
            {LogCall(cc, uid), ReportCall(cc, uid), WrongType(cc, uid)} \cup ForeignOutputs(cc, uid)
    IN
    /\ pc = "first_llm"
    /\ \/ /\ Propagate("ModelUnavailable")
          /\ UNCHANGED <<llm_calls, response_text>>
       \/ \E content \in ToolOutputs(req.customer_contact, req.user_id) :
            /\ llm_calls' = Append(llm_calls, [prompt |-> prompts.agent_prompt,
                                               content |-> content])
            /\ response_text' = strip(content)
            /\ pc' = "interpret"
            /\ UNCHANGED outcome
    /\ UNCHANGED <<req, prompts, tool, retrieval>>
    /\ UNCHANGED <<envVars, fsVars, webVars, idxVars, dbVars>>

\* the state the services start in: the foundational index built, no tenant
\* index, an empty progress table, no users table
InitBase ==
    /\ FsInit
    /\ CallInit
    /\ progress = <<>>
    /\ baseIndex = TRUE
    /\ userIndex = {}
    /\ requests = 0
    /\ calls = <<>>
    /\ WebInit
    /\ IdxInit
    /\ DbInit

NextDispatch ==
    \/ \E user_id \in Tenants, customer_contact \in Contacts :
          Invoke(user_id, customer_contact, <<>>)
    \/ FirstCompletionToolCall
    \/ ToolDetected
    \/ SecondCompletion
    \/ Finish

SpecDispatch == InitBase /\ [][NextDispatch]_vars

(***************************************************************************)
(* The instruction and promotion files: uploads and get_prompts.           *)
(***************************************************************************)
\* uploader: <name>_<timestamp>.txt, written anew (a file of the same name is replaced)
NewFile(directory, base, content) ==
    [dir |-> directory, base |-> base, ts |-> now, ext |-> ".txt", mtime |-> now,
     content |-> content]

WriteFile(f) == {g \in files : ~(g.dir = f.dir /\ g.base = f.base /\ g.ts = f.ts)} \cup {f}

\* knowledge_manager.save_instruction_file(user_id, file): the tenant's directory
\* is made, then the text is saved; a failure of the save is swallowed
UploadTenantInstructions(user_id, base, content) ==
    /\ pc = "idle"
    /\ Cardinality(files) < MaxFiles
    /\ tenantDirs' = tenantDirs \cup {user_id}
    /\ \/ files' = WriteFile(NewFile(TenantDir(user_id), base, content))
       \/ UNCHANGED files
    /\ resolved' = NoResolved
    /\ UNCHANGED <<now, envVars, callVars, webVars, idxVars, dbVars>>

\* admin.upload_instructions_file and admin.upload_promo_file: save_docx_as_text
\* into data/instructions or data/promos
UploadGlobal(directory, base, content) ==
    /\ pc = "idle"
    /\ Cardinality(files) < MaxFiles
    /\ files' = WriteFile(NewFile(directory, base, content))
    /\ resolved' = NoResolved
    /\ UNCHANGED <<tenantDirs, now, envVars, callVars, webVars, idxVars, dbVars>>

\* time passes: a later write carries a later timestamp and modification time
Tick ==
    /\ now <= Cardinality(files)
    /\ now' = now + 1
    /\ UNCHANGED <<files, tenantDirs, resolved, envVars, callVars, webVars, idxVars, dbVars>>

\* a call of get_prompts(user_id)
Resolve(user_id) ==
    /\ pc = "idle"
    /\ \E env \in PromptEnvs(user_id) :
          resolved' = [called |-> TRUE, user_id |-> user_id, tenantOk |-> env.tenantOk,
                       globalOk |-> env.globalOk, promoOk |-> env.promoOk,
                       text |-> get_prompts(user_id, env)[1],
                       promotions |-> get_prompts(user_id, env)[2],
                       previous |-> IF resolved.called /\ resolved.user_id = user_id
                                    THEN [called |-> TRUE,
                                          user_id |-> resolved.user_id,
                                          readsOk |-> /\ resolved.tenantOk
                                                      /\ resolved.globalOk
                                                      /\ resolved.promoOk,
                                          text |-> resolved.text]
                                    ELSE NoPrevious]
    /\ UNCHANGED <<files, tenantDirs, now, envVars, callVars, webVars, idxVars, dbVars>>

NextPrompts ==
    \* what an uploaded document can hold: only whitespace, or text (with
    \* whitespace around it)
    \/ \E base \in {"a", "b"},
          content \in {<<WS>>, <<WS, "Persona A", WS>>, <<"Persona B">>} :
          UploadTenantInstructions("t1", base, content)
    \/ \E content \in {<<WS>>, <<"Persona G">>} : UploadGlobal(GlobalDir, "g", content)
    \/ \E content \in {<<"Promo P">>} : UploadGlobal(PromoDir, "p", content)
    \/ Tick
    \/ \E user_id \in Tenants \cup {NoUser} : Resolve(user_id)

SpecPrompts == InitBase /\ [][NextPrompts]_vars

(***************************************************************************)
(* The progress store: the tool functions called on their own.             *)
(***************************************************************************)
\* a call as the store's history keeps it, and the history of the last two
Call(fn, kw, r) == [fn |-> fn, kw |-> kw, result |-> r.result]
Remember(call) == IF calls = <<>> THEN <<call>> ELSE <<Last(calls), call>>

\* log_customer_data(**kw); log_time is set by the table (a later row, a later time)
LogCustomerData(kw, dbOk) ==
    /\ pc = "idle"
    /\ Len(progress) < MaxRows
    /\ LET r == log_customer_data(kw, dbOk, progress, Len(progress) + 1)
       IN /\ progress' = r.rows
          /\ calls' = Remember(Call("log_customer_data", kw, r))
    /\ UNCHANGED <<baseIndex, userIndex, requests, fsVars, callVars, webVars, idxVars, dbVars>>

\* generate_progress_report(**kw)
GenerateProgressReport(kw, dbOk) ==
    /\ pc = "idle"
    /\ LET r == generate_progress_report(kw, dbOk, progress)
       IN /\ progress' = r.rows
          /\ calls' = Remember(Call("generate_progress_report", kw, r))
    /\ UNCHANGED <<baseIndex, userIndex, requests, fsVars, callVars, webVars, idxVars, dbVars>>

\* get_all_customer_reports(user_id): the dict as its items, in insertion order;
\* a failure returns {}.  It leaves the table alone
get_all_customer_reports(user_id, dbOk, rows) ==
    LET
        \* the entries of one customer: a report line without the trailing newline
        ReportEntries(records) ==
            [i \in DOMAIN records |->
                LET r == records[i]
                    notes_str == IF r.notes # "" THEN <<" (Notes: ", r.notes, ")">> ELSE <<>>
                IN <<"- On ", ToString(r.log_time), ": ", r.metric_name, " was ", r.metric_value>>
                   \o notes_str]
    IN
    IF dbOk
    THEN LET cs == ContactsOf(rows, user_id)
         IN [result |-> [i \in DOMAIN cs |->
                            [contact |-> cs[i],
                             entries |-> ReportEntries(SelectDesc(rows, cs[i], user_id))]],
             rows |-> rows]
    ELSE [result |-> <<>>, rows |-> rows]

\* get_all_customer_reports(user_id), as the admin UI calls it
GetAllCustomerReports(user_id, dbOk) ==
    /\ pc = "idle"
    /\ LET r == get_all_customer_reports(user_id, dbOk, progress)
       IN /\ progress' = r.rows
          /\ calls' = Remember(Call("get_all_customer_reports", Scalar("str", user_id), r))
    /\ UNCHANGED <<baseIndex, userIndex, requests, fsVars, callVars, webVars, idxVars, dbVars>>

\* the calls, with the keyword arguments a caller may pass
NextTools ==
    \/ \E kw \in {json_loads(LogArgs(cc, uid, value)).val :
                     cc \in Contacts, uid \in Tenants,
                     value \in {<<"82.5kg">>, <<"[", "7", "]">>}},
          dbOk \in BOOLEAN : LogCustomerData(kw, dbOk)
    \/ \E kw \in {json_loads(ReportArgs(cc, uid) \o <<"}">>).val :
                     cc \in Contacts, uid \in Tenants},
          dbOk \in BOOLEAN : GenerateProgressReport(kw, dbOk)
    \/ \E user_id \in Tenants, dbOk \in BOOLEAN : GetAllCustomerReports(user_id, dbOk)

SpecTools == InitBase /\ [][NextTools]_vars

(***************************************************************************)
(* The conversation history: format_chat_history called on its own.        *)
(***************************************************************************)
\* format_chat_history(chat_history): req keeps the argument, prompts the result
FormatHistory(chat_history) ==
    /\ pc = "idle"
    /\ req' = [NoReq EXCEPT !.user_question = Question, !.chat_history = chat_history]
    /\ prompts' = [NoPrompts EXCEPT !.formatted_history = format_chat_history(chat_history)]
    /\ UNCHANGED <<pc, llm_calls, response_text, tool, retrieval, outcome>>
    /\ UNCHANGED <<envVars, fsVars, webVars, idxVars, dbVars>>

\* the turns a history is made of; a content may be empty
NextHistory ==
    \E chat_history \in SeqsUpTo([role : {"user", "assistant"},
                                   content : {"hi", "hello", ""}], MaxTurns) :
        FormatHistory(chat_history)

SpecHistory == InitBase /\ [][NextHistory]_vars

(***************************************************************************)
(* The transports: whatsapp_adapter.whatsapp_webhook and                   *)
(* website_chat_router.websocket_endpoint.                                 *)
(***************************************************************************)
\* lines 129-136: a visit is new unless the last one is less than 30 minutes old
ManageSession(user_data) ==
    IF user_data.last_visit_timestamp # "recent"
    THEN [user_data EXCEPT !.visit_count = @ + 1, !.chat_history = <<>>]
    ELSE user_data

\* lines 158-165: the turn is appended, the history cut to its last 10 entries
max_history_length == 10
UpdateUserState(user_data, user_message, bot_response_text) ==
    LET h == Append(user_data.chat_history, <<user_message, bot_response_text>>)
    IN [user_data EXCEPT
          !.chat_history = IF Len(h) > max_history_length
                           THEN SubSeq(h, Len(h) - max_history_length + 1, Len(h)) ELSE h,
          !.last_visit_timestamp = "recent"]

\* lines 109-118: the form is read; a payload without Body or From is refused (400)
Receive(h, sender, hasBody) ==
    LET
        \* the requests in flight: received and not yet answered
        InFlight == {w \in Handlers : webhooks[w].pc \notin {"new", "done"}}
    IN
    /\ webhooks[h].pc = "new"
    /\ webhooks' = [webhooks EXCEPT ![h] =
           IF hasBody
           THEN [@ EXCEPT !.pc = "acquire", !.sender = sender, !.body = <<"message", h>>,
                          !.with = InFlight]
           ELSE [@ EXCEPT !.pc = "done", !.status = 400]]
    /\ UNCHANGED <<session_locks, session_files, website_sessions, websockets>>
    /\ UNCHANGED <<envVars, fsVars, callVars, idxVars, dbVars>>

\* a slip of the locking: the handler goes on whether or not the lock is held
CanAcquire_NoLock(h) == TRUE
\* lines 121-122: async with lock waits until the sender's lock is free
CanAcquire(h) == session_locks[webhooks[h].sender] = 0

Acquire(h) ==
    /\ webhooks[h].pc = "acquire"
    /\ CanAcquire(h)
    /\ session_locks' = [session_locks EXCEPT ![webhooks[h].sender] = h]
    /\ webhooks' = [webhooks EXCEPT ![h].pc = "load"]
    /\ UNCHANGED <<session_files, website_sessions, websockets>>
    /\ UNCHANGED <<envVars, fsVars, callVars, idxVars, dbVars>>

\* line 125: the session is loaded from its file
Load(h) ==
    LET
        \* load_user_session(sender_id)
        load_user_session(sender_id) ==
            IF ~session_files[sender_id].exists THEN DefaultSession ELSE session_files[sender_id].data
    IN
    /\ webhooks[h].pc = "load"
    /\ webhooks' = [webhooks EXCEPT ![h].user_data = load_user_session(webhooks[h].sender),
                                    ![h].pc = "respond"]
    /\ UNCHANGED <<session_locks, session_files, website_sessions, websockets>>
    /\ UNCHANGED <<envVars, fsVars, callVars, idxVars, dbVars>>

\* a slip of the handler: the lock is released after the save only, an
\* exception leaves it held
Respond_KeepsLockOnError(h) ==
    /\ webhooks[h].pc = "respond"
    /\ LET w == webhooks[h]
           user_data == ManageSession(w.user_data)
           args == <<w.body, user_data>>
       IN IF Binds(args)
          THEN \E answer \in Answers :
                 LET saved == UpdateUserState(user_data, w.body, answer)
                 IN /\ session_files' = [session_files EXCEPT ![w.sender] = File(saved)]
                    /\ webhooks' = [webhooks EXCEPT ![h].user_data = saved,
                                                    ![h].pc = "done", ![h].status = 200]
                    /\ session_locks' = [session_locks EXCEPT ![w.sender] = 0]
          ELSE /\ webhooks' = [webhooks EXCEPT ![h].user_data = user_data,
                                               ![h].pc = "done", ![h].status = 500]
               /\ UNCHANGED <<session_files, session_locks>>
    /\ UNCHANGED <<website_sessions, websockets>>
    /\ UNCHANGED <<envVars, fsVars, callVars, idxVars, dbVars>>

\* lines 126-175: the session logic and get_contextual_response(user_message,
\* user_data).  When the call returns, the replies are sent, the turn is
\* appended and the session saved; when it raises, the except clause sends the
\* generic error and answers 500.  Leaving `async with` releases the lock on
\* either way
Respond(h) ==
    /\ webhooks[h].pc = "respond"
    /\ LET w == webhooks[h]
           user_data == ManageSession(w.user_data)
           args == <<w.body, user_data>>
       IN IF Binds(args)
          THEN \E answer \in Answers :
                 LET saved == UpdateUserState(user_data, w.body, answer)
                 IN /\ session_files' = [session_files EXCEPT ![w.sender] = File(saved)]
                    /\ webhooks' = [webhooks EXCEPT ![h].user_data = saved,
                                                    ![h].pc = "done", ![h].status = 200]
          ELSE /\ webhooks' = [webhooks EXCEPT ![h].user_data = user_data,
                                               ![h].pc = "done", ![h].status = 500]
               /\ UNCHANGED session_files
    /\ session_locks' = [session_locks EXCEPT ![webhooks[h].sender] = 0]
    /\ UNCHANGED <<website_sessions, websockets>>
    /\ UNCHANGED <<envVars, fsVars, callVars, idxVars, dbVars>>

\* website_chat_router.py:23-27: the connection is accepted, its session made
Accept(c, user_id) ==
    /\ websockets[c].pc = "new"
    /\ websockets' = [websockets EXCEPT ![c].pc = "open", ![c].user_id = user_id]
    /\ website_sessions' = [website_sessions EXCEPT ![c] = [exists |-> TRUE, chat_history |-> <<>>]]
    /\ UNCHANGED <<session_locks, session_files, webhooks>>
    /\ UNCHANGED <<envVars, fsVars, callVars, idxVars, dbVars>>

\* lines 32-55: a message is received and get_contextual_response(user_message,
\* chat_history, user_id) called; when it returns the turn is appended, when
\* it raises the except clause deletes the session and the handler ends
ReceiveText(c) ==
    /\ websockets[c].pc = "open"
    /\ LET user_message == <<"message", c>>
           chat_history == website_sessions[c].chat_history
           args == <<user_message, chat_history, websockets[c].user_id>>
       IN IF Binds(args)
          THEN \E answer \in Answers :
                 /\ website_sessions' = [website_sessions EXCEPT ![c].chat_history =
                        chat_history \o <<[role |-> "user", content |-> user_message],
                                          [role |-> "assistant", content |-> answer]>>]
                 /\ websockets' = [websockets EXCEPT ![c].messages = @ + 1]
          ELSE /\ website_sessions' = [website_sessions EXCEPT ![c] = NoWebsiteSession]
               /\ websockets' = [websockets EXCEPT ![c].pc = "closed", ![c].messages = @ + 1]
    /\ UNCHANGED <<session_locks, session_files, webhooks>>
    /\ UNCHANGED <<envVars, fsVars, callVars, idxVars, dbVars>>

\* lines 50-52: the client disconnects
Disconnect(c) ==
    /\ websockets[c].pc = "open"
    /\ website_sessions' = [website_sessions EXCEPT ![c] = NoWebsiteSession]
    /\ websockets' = [websockets EXCEPT ![c].pc = "closed"]
    /\ UNCHANGED <<session_locks, session_files, webhooks>>
    /\ UNCHANGED <<envVars, fsVars, callVars, idxVars, dbVars>>

\* the session files a deployment may start with: none, or one kept from an earlier visit
InitSessions ==
    /\ FsInit
    /\ CallInit
    /\ progress = <<>>
    /\ baseIndex = TRUE
    /\ userIndex = {}
    /\ requests = 0
    /\ calls = <<>>
    /\ session_locks = [s \in Senders |-> 0]
    /\ \E f \in {NoFile, File(StoredSession("recent")), File(StoredSession("old"))} :
          session_files = [s \in Senders |-> IF s = "s1" THEN f ELSE NoFile]
    /\ webhooks = [h \in Handlers |-> NoWebhook]
    /\ website_sessions = [c \in Connections |-> NoWebsiteSession]
    /\ websockets = [c \in Connections |-> NoWebsocket]
    /\ IdxInit
    /\ DbInit

NextSessions ==
    \/ \E h \in Handlers, sender \in Senders, hasBody \in BOOLEAN : Receive(h, sender, hasBody)
    \/ \E h \in Handlers : Acquire(h)
    \/ \E h \in Handlers : Load(h)
    \/ \E h \in Handlers : Respond(h)
    \/ \E c \in Connections, user_id \in Tenants : Accept(c, user_id)
    \/ \E c \in Connections : ReceiveText(c)
    \/ \E c \in Connections : Disconnect(c)

SpecSessions == InitSessions /\ [][NextSessions]_vars

\* the webhook alone, under the event loop's scheduling: a handler that can
\* take its next step takes it, and a released lock wakes the next waiter
NextWebhooks ==
    \/ \E h \in Handlers, sender \in Senders, hasBody \in BOOLEAN : Receive(h, sender, hasBody)
    \/ \E h \in Handlers : Acquire(h)
    \/ \E h \in Handlers : Load(h)
    \/ \E h \in Handlers : Respond(h)


SpecWebhooks ==
    /\ InitSessions
    /\ [][NextWebhooks]_vars
    /\ \A h \in Handlers : WF_vars(Acquire(h)) /\ WF_vars(Load(h)) /\ WF_vars(Respond(h))

(***************************************************************************)
(* The knowledge indexes: vector_store.reindex_knowledge_base (run in the  *)
(* background by admin.trigger_reindexing), knowledge_manager.             *)
(* build_user_database, and the retrievals that read the indexes.  An      *)
(* index directory is "old" or "new" (complete), "deleted", "empty" (made  *)
(* anew, nothing in it) or "partial" (being written).                      *)
(***************************************************************************)
Rebuilding(s) == rebuild[s] \notin {"idle", "done"}
OthersUnchanged == UNCHANGED <<envVars, fsVars, callVars, webVars, dbVars>>

\* admin.py:97-116: the rebuild is queued as a background task and 202 returned
TriggerReindexing ==
    LET
        \* a complete index built by an earlier run is the old one of the next run
        AsOld(state) == IF state = "new" THEN "old" ELSE state
    IN
    /\ ~Rebuilding("base")
    /\ rebuild' = [rebuild EXCEPT !["base"] = "queued"]
    /\ index' = [index EXCEPT !["base"] = AsOld(@)]
    /\ UNCHANGED observed
    /\ OthersUnchanged

\* vector_store.py:69-71: shutil.rmtree(CHROMA_PATH)
ReindexRmtree ==
    /\ rebuild["base"] = "queued"
    /\ index' = [index EXCEPT !["base"] = "deleted"]
    /\ rebuild' = [rebuild EXCEPT !["base"] = "cleared"]
    /\ UNCHANGED observed
    /\ OthersUnchanged

\* vector_store.py:72: os.makedirs(CHROMA_PATH)
ReindexMakedirs ==
    /\ rebuild["base"] = "cleared"
    /\ index' = [index EXCEPT !["base"] = "empty"]
    /\ rebuild' = [rebuild EXCEPT !["base"] = "load"]
    /\ UNCHANGED observed
    /\ OthersUnchanged

\* vector_store.py:75-95: the documents are loaded and split; with none the
\* function returns and the directory stays empty
ReindexLoad(hasDocuments) ==
    /\ rebuild["base"] = "load"
    /\ rebuild' = [rebuild EXCEPT !["base"] = IF hasDocuments THEN "embed" ELSE "done"]
    /\ UNCHANGED <<index, observed>>
    /\ OthersUnchanged

\* knowledge_manager.py:117-126: the client is reset and the tenant's directory removed
BuildUserDatabase(user_id) ==
    /\ ~Rebuilding(user_id)
    /\ index' = [index EXCEPT ![user_id] = "deleted"]
    /\ rebuild' = [rebuild EXCEPT ![user_id] = "load"]
    /\ UNCHANGED observed
    /\ OthersUnchanged

\* knowledge_manager.py:128-143: the uploads are loaded and split; with no
\* document or no chunk the function returns and the directory stays removed
BuildLoad(user_id, hasDocuments) ==
    /\ rebuild[user_id] = "load"
    /\ rebuild' = [rebuild EXCEPT ![user_id] = IF hasDocuments THEN "embed" ELSE "done"]
    /\ UNCHANGED <<index, observed>>
    /\ OthersUnchanged

\* Chroma.from_documents (vector_store.py:99-104, knowledge_manager.py:146-151)
\* starts to write the collection; when the embedding call raises, the rebuild
\* ends there (admin.py:95-96 logs the error)
FromDocuments(s) ==
    /\ rebuild[s] = "embed"
    /\ \/ /\ index' = [index EXCEPT ![s] = "partial"]
          /\ rebuild' = [rebuild EXCEPT ![s] = "writing"]
       \/ /\ rebuild' = [rebuild EXCEPT ![s] = "done"]
          /\ UNCHANGED index
    /\ UNCHANGED observed
    /\ OthersUnchanged

\* Chroma.from_documents returns: the collection is written
Persisted(s) ==
    /\ rebuild[s] = "writing"
    /\ index' = [index EXCEPT ![s] = "new"]
    /\ rebuild' = [rebuild EXCEPT ![s] = "done"]
    /\ UNCHANGED observed
    /\ OthersUnchanged

\* rag.py:169-177: a retrieval opens the index and queries it
Read(s) ==
    /\ observed' = [store |-> s, saw |-> index[s], rebuilding |-> Rebuilding(s)]
    /\ UNCHANGED <<index, rebuild>>
    /\ OthersUnchanged

InitRebuild ==
    /\ FsInit
    /\ CallInit
    /\ progress = <<>>
    /\ baseIndex = TRUE
    /\ userIndex = {"t1"}
    /\ requests = 0
    /\ calls = <<>>
    /\ WebInit
    /\ IdxInit
    /\ DbInit

NextRebuild ==
    \/ TriggerReindexing
    \/ ReindexRmtree
    \/ ReindexMakedirs
    \/ \E hasDocuments \in BOOLEAN : ReindexLoad(hasDocuments)
    \/ BuildUserDatabase("t1")
    \/ \E hasDocuments \in BOOLEAN : BuildLoad("t1", hasDocuments)
    \/ \E s \in Stores : FromDocuments(s)
    \/ \E s \in Stores : Persisted(s)
    \/ \E s \in Stores : Read(s)

SpecRebuild == InitRebuild /\ [][NextRebuild]_vars

(***************************************************************************)
(* The user accounts: database.create_user_table, add_user and             *)
(* verify_user, called from the browser sessions of ui.py and admin_ui.py. *)
(* Each call opens its own connection; verify_user runs a SELECT and then, *)
(* as a second statement, an UPDATE.                                       *)
(***************************************************************************)
NotUsers == UNCHANGED <<envVars, fsVars, callVars, webVars, idxVars>>

\* create_user_table(): CREATE TABLE IF NOT EXISTS users
create_user_table ==
    /\ users' = [users EXCEPT !.created = TRUE]
    /\ UNCHANGED <<verifying, returned>>
    /\ NotUsers

\* add_user(username, name, password): the key is drawn, the row inserted
\* unverified; a username that exists raises IntegrityError and None is
\* returned; without the table the INSERT raises OperationalError
add_user(username, verification_key) ==
    /\ IF ~users.created
       THEN /\ returned' = [fn |-> "add_user", username |-> username,
                            result |-> "OperationalError"]
            /\ UNCHANGED users
       ELSE IF users.rows[username].exists
       THEN /\ returned' = [fn |-> "add_user", username |-> username, result |-> "None"]
            /\ UNCHANGED users
       ELSE /\ users' = [users EXCEPT !.rows[username] =
                            [exists |-> TRUE, verification_key |-> verification_key,
                             is_verified |-> FALSE]]
            /\ returned' = [fn |-> "add_user", username |-> username,
                            result |-> verification_key]
    /\ UNCHANGED verifying
    /\ NotUsers

\* verify_user lines 67-70: SELECT verification_key ... WHERE username = ? AND
\* is_verified = 0, and fetchone()
VerifySelect(b, username, verification_key) ==
    /\ verifying[b].pc = "idle"
    /\ IF ~users.created
       THEN /\ returned' = [fn |-> "verify_user", username |-> username,
                            result |-> "OperationalError"]
            /\ UNCHANGED verifying
       ELSE /\ verifying' = [verifying EXCEPT ![b] =
                   [pc |-> "selected", username |-> username,
                    verification_key |-> verification_key,
                    user |-> IF users.rows[username].exists
                                /\ ~users.rows[username].is_verified
                             THEN users.rows[username].verification_key ELSE "None"]]
            /\ UNCHANGED returned
    /\ UNCHANGED users
    /\ NotUsers

\* verify_user lines 72-79: the key fetched is compared; when equal the UPDATE
\* sets is_verified = 1 and the key to NULL, and True is returned
VerifyDecide(b) ==
    /\ verifying[b].pc = "selected"
    /\ LET v == verifying[b]
       IN IF v.user # "None" /\ v.user = v.verification_key
          THEN /\ users' = [users EXCEPT !.rows[v.username] =
                               [@ EXCEPT !.is_verified = TRUE, !.verification_key = Null]]
               /\ returned' = [fn |-> "verify_user", username |-> v.username,
                               result |-> "True"]
          ELSE /\ UNCHANGED users
               /\ returned' = [fn |-> "verify_user", username |-> v.username,
                               result |-> "False"]
    /\ verifying' = [verifying EXCEPT ![b] = NoVerify]
    /\ NotUsers

NextUsers ==
    \/ create_user_table
    \/ \E username \in Usernames, verification_key \in VerificationKeys :
          add_user(username, verification_key)
    \/ \E b \in BrowserSessions, username \in Usernames, verification_key \in VerificationKeys :
          VerifySelect(b, username, verification_key)
    \/ \E b \in BrowserSessions : VerifyDecide(b)

SpecUsers == InitBase /\ [][NextUsers]_vars

(***************************************************************************)
(* The claims.                                                             *)
(***************************************************************************)
\* sub occurs in s as a run of consecutive tokens
Contains(s, sub) ==
    \E i \in 1..(Len(s) - Len(sub) + 1) : SubSeq(s, i, i + Len(sub) - 1) = sub

ToolNames == {Scalar("str", "log_customer_data"), Scalar("str", "generate_progress_report")}

\* the first completion was made and its content has been interpreted
Interpreted == llm_calls # <<>> /\ pc \notin {"idle", "first_llm", "interpret"}

\* the trimmed text is brace-delimited and parses as an object
ParsesAsObject(text) ==
    /\ text # <<>> /\ Head(text) = "{" /\ Last(text) = "}"
    /\ json_loads(text).ok
    /\ json_loads(text).val.kind = "obj"

\* ... that holds a tool_name and a parameters mapping
WellFormedInvocation(text) ==
    /\ ParsesAsObject(text)
    /\ {"tool_name", "parameters"} \subseteq Keys(json_loads(text).val)
    /\ dict_get(json_loads(text).val, "parameters", NoneVal).kind = "obj"

\* C1: every call of get_contextual_response that has its model client ends by
\* returning a result with an answer string, whatever fails underneath (a
\* completion, retrieval, compression, the tool dispatch); no exception reaches
\* the caller
C1_AlwaysReturnsAnswer ==
    (pc = "done" /\ prompts # NoPrompts)
        => outcome.kind = "returned" /\ outcome.answer # <<>>

\* C2: the first output is treated as a tool invocation if and only if, trimmed,
\* it is brace-delimited, parses as an object and holds both a tool_name and a
\* parameters mapping
C2_DetectionRule ==
    Interpreted => (tool.detected <=> WellFormedInvocation(response_text))

\* C3 (as claimed): when the first output is not a tool call, the answer
\* returned is exactly that raw output and nothing is raised
C3_RawOutputReturned ==
    (pc = "done" /\ Interpreted /\ ~ParsesAsObject(response_text))
        => outcome.kind = "returned" /\ outcome.answer = llm_calls[1].content

\* C3 (amended): when the first output is not a tool call (plain text, or
\* brace-delimited text that fails to parse), no tool is dispatched and the
\* failed parse raises nothing: the call goes on to retrieval, and an answer it
\* returns is the content of the final completion, made on the retrieval prompt
C3_NoToolGoesToRetrieval ==
    (Interpreted /\ ~ParsesAsObject(response_text))
        => /\ ~tool.detected
           /\ tool.ran = <<>>
           /\ pc \in {"retrieve", "gather", "compress", "final_llm", "done"}
           /\ outcome.kind = "raised" =>
                 outcome.exc \in {"KnowledgeBaseMissing", "RetrievalError", "CompressionError",
                                  "ModelUnavailable"}
           /\ outcome.kind = "returned" =>
                 /\ Len(llm_calls) = 2
                 /\ llm_calls[2].prompt = retrieval.final_prompt
                 /\ outcome.answer = llm_calls[2].content

C3_Witness ==
    /\ pc = "done"
    /\ llm_calls # <<>>
    /\ response_text = BadJson
    /\ outcome.kind = "returned"

\* C4: a parsed invocation that names no tool of the closed set runs no tool
\* function; its result is the "Unknown tool." string, which is passed to the
\* second completion, and the answer returned is that completion's content
C4_UnknownTool ==
    (tool.detected /\ tool.tool_name \notin ToolNames)
        => /\ tool.ran = <<>>
           /\ tool.result = <<"Unknown tool.">>
           /\ pc \in {"second_llm", "done"}
           /\ Contains(tool.second_prompt, tool.result)
           /\ outcome.exc # "TypeError"
           /\ outcome.kind = "returned" =>
                 /\ Len(llm_calls) = 2
                 /\ llm_calls[2].prompt = tool.second_prompt
                 /\ outcome.answer = llm_calls[2].content

C4_Witness ==
    /\ pc = "done"
    /\ tool.detected
    /\ tool.tool_name = Scalar("str", "delete_all_data")
    /\ outcome.kind = "returned"

\* C5: once a tool has been dispatched the call ends with an answer: when the
\* second completion fails the answer is "Got it, thanks!" and nothing is raised
C5_PhrasingFallback ==
    (pc = "done" /\ tool.detected /\ tool.second_prompt # <<>>)
        => /\ outcome.kind = "returned"
           /\ Len(llm_calls) < 2 => outcome.answer = <<"Got it, thanks!">>

\* C6: a recognized tool that fails (storage failure, or missing, extra or
\* wrongly typed parameters) yields its own error string, which is passed to
\* the second completion; the failure raises nothing
C6_ToolFailureRecovered ==
    (tool.detected /\ tool.tool_name \in ToolNames)
        => /\ outcome.exc # "TypeError"
           /\ tool.result # <<>>
           /\ Contains(tool.second_prompt, tool.result)

\* C7 (as claimed): every returned knowledge_source is "Foundational",
\* "Custom + Foundational" or "Error": "Foundational" for a tenant with no
\* custom index, "Custom + Foundational" for a tenant with one, on every path
C7_KnowledgeSourceOfThree ==
    outcome.kind = "returned"
        => /\ outcome.knowledge_source \in {"Foundational", "Custom + Foundational", "Error"}
           /\ req.user_id \notin userIndex => outcome.knowledge_source = "Foundational"
           /\ req.user_id \in userIndex => outcome.knowledge_source = "Custom + Foundational"

\* C7 (amended): every returned knowledge_source is "Foundational",
\* "Custom + Foundational" or "Agent Tool" (never "Error"); a result of the
\* retrieval path carries "Foundational" when the request got no tenant
\* retriever and "Custom + Foundational" when it got one; a result of the tool
\* path carries "Agent Tool" whatever indexes exist
C7_KnowledgeSourceByPath ==
    outcome.kind = "returned"
        => /\ outcome.knowledge_source \in {"Foundational", "Custom + Foundational", "Agent Tool"}
           /\ (~tool.detected /\ retrieval.tasks = <<"base">>)
                 => outcome.knowledge_source = "Foundational"
           /\ (~tool.detected /\ retrieval.tasks = <<"base", "user">>)
                 => outcome.knowledge_source = "Custom + Foundational"
           /\ ~tool.detected => retrieval.tasks \in {<<"base">>, <<"base", "user">>}
           /\ tool.detected => outcome.knowledge_source = "Agent Tool"

C7_Witness ==
    /\ outcome.kind = "returned"
    /\ ~tool.detected
    /\ retrieval.tasks = <<"base", "user">>
    /\ outcome.knowledge_source = "Custom + Foundational"

\* the texts of a list of passages
TextsOf(docs) == {docs[i].page_content : i \in DOMAIN docs}
\* the gather is complete and its results are merged
Merged == pc \in {"compress", "final_llm"}

\* C8: the merged list holds every distinct passage text of either branch
\* exactly once, and no text of neither
C8_EachTextOnce ==
    Merged =>
        LET branches == retrieval.base \o retrieval.user
            merged == retrieval.unique_docs
        IN /\ \A text \in TextsOf(branches) :
                 Cardinality({i \in DOMAIN merged : merged[i].page_content = text}) = 1
           /\ TextsOf(merged) \subseteq TextsOf(branches)

C8_Witness ==
    /\ Merged
    /\ TextsOf(retrieval.base) \cap TextsOf(retrieval.user) # {}
    /\ Len(retrieval.base \o retrieval.user) > Len(retrieval.unique_docs)
    /\ Len(retrieval.unique_docs) = 2

\* C9: with neither the foundational nor the tenant index available, a call
\* that comes to retrieval returns the "no knowledge base yet" answer, no
\* sources and knowledge_source "Error", and raises nothing
C9_NoKnowledgeBaseAnswer ==
    (pc = "done" /\ Interpreted /\ ~tool.detected
       /\ ~baseIndex /\ req.user_id \notin userIndex)
        => /\ outcome.kind = "returned"
           /\ outcome.sources = <<>>
           /\ outcome.knowledge_source = "Error"

\* the instructions of a resolved text: what stands before the promotions header
InstructionsOf(text) ==
    SubSeq(text, 1, (CHOOSE i \in DOMAIN text : text[i] = PromoHeader) - 1)

\* the texts of the directory's most recently modified files
NewestTexts(directory) ==
    LET F == {f \in files : f.dir = directory}
    IN {strip(f.content) : f \in {g \in F : \A h \in F : h.mtime <= g.mtime}}

\* the texts the last get_prompts call could read as the tenant's and as the global one
TenantTexts ==
    IF resolved.user_id # NoUser /\ resolved.tenantOk
    THEN NewestTexts(TenantDir(resolved.user_id)) ELSE {}

GlobalTexts == IF resolved.globalOk THEN NewestTexts(GlobalDir) ELSE {}

\* C10: the instructions are the text of the tenant's newest file when it has
\* text; otherwise the text of the newest global file when that has text;
\* otherwise the built-in default.  A tenant's text is never replaced by a
\* global one
C10_Precedence ==
    resolved.called =>
        LET instructions == InstructionsOf(resolved.text)
            noTenantText == TenantTexts = {} \/ <<>> \in TenantTexts
            noGlobalText == GlobalTexts = {} \/ <<>> \in GlobalTexts
        IN \/ instructions \in TenantTexts \ {<<>>}
           \/ noTenantText /\ instructions \in GlobalTexts \ {<<>>}
           \/ noTenantText /\ noGlobalText /\ instructions = DefaultInstructions

C10_Witness ==
    /\ resolved.called
    /\ TenantTexts # {} /\ <<>> \notin TenantTexts
    /\ GlobalTexts # {} /\ <<>> \notin GlobalTexts
    /\ InstructionsOf(resolved.text) \in TenantTexts

\* the promotions of a resolved text: what stands after the promotions header
PromotionsOf(text) ==
    SubSeq(text, (CHOOSE i \in DOMAIN text : text[i] = PromoHeader) + 1, Len(text))

\* no instruction file exists for the tenant of the last call, and none globally
NoInstructionFile ==
    ~\E f \in files : f.dir \in {TenantDir(resolved.user_id), GlobalDir} /\ IsTxt(f)

NoPromotionFile == ~\E f \in files : f.dir = PromoDir /\ IsTxt(f)

\* C11 (as claimed): with no instruction file, tenant or global, get_prompts
\* returns the built-in default instruction string and nothing else; with no
\* promotion file the promotions it returns are the built-in default promotion
\* string
C11_DefaultsReturnedAlone ==
    resolved.called =>
        /\ NoInstructionFile => resolved.text = DefaultInstructions
        /\ NoPromotionFile => resolved.promotions = DefaultPromotions

\* C11 (amended): get_prompts returns one text, the instructions followed by
\* the promotions header and the promotions, and an empty second element; with
\* no instruction file, tenant or global, the instructions part is exactly the
\* built-in default, and with no promotion file the promotions part is exactly
\* the built-in default promotion string
C11_DefaultsInCombinedText ==
    resolved.called =>
        /\ resolved.text =
               InstructionsOf(resolved.text) \o <<PromoHeader>> \o PromotionsOf(resolved.text)
        /\ resolved.promotions = <<>>
        /\ NoInstructionFile => InstructionsOf(resolved.text) = DefaultInstructions
        /\ NoPromotionFile => PromotionsOf(resolved.text) = DefaultPromotions

C11_Witness ==
    /\ resolved.called
    /\ resolved.user_id = "t1"
    /\ "t1" \in tenantDirs
    /\ NoInstructionFile
    /\ NoPromotionFile
    /\ resolved.text = DefaultInstructions \o <<PromoHeader>> \o DefaultPromotions

\* the last two calls were generate_progress_report for the same customer and tenant
TwoReports ==
    /\ Len(calls) = 2
    /\ calls[1].fn = "generate_progress_report"
    /\ calls[2].fn = "generate_progress_report"
    /\ calls[1].kw = calls[2].kw

ReportFailed(result) == Head(result) = "Failed to generate report: "

Logged(call) == call.fn = "log_customer_data" /\ Head(call.result) = "Successfully logged "
ReadOnlyCall(call) == call.fn \in {"generate_progress_report", "get_all_customer_reports"}

\* C13: the store is append-only: a successful log_customer_data adds exactly
\* one record after the existing ones and leaves those as they were, a failed
\* one adds none, and generate_progress_report and get_all_customer_reports
\* leave every record as it was
C13_AppendOnly ==
    [][LET call == Last(calls')
       IN /\ Logged(call) =>
                /\ Len(progress') = Len(progress) + 1
                /\ SubSeq(progress', 1, Len(progress)) = progress
                /\ Last(progress').customer_contact =
                       SqlValue(dict_get(call.kw, "customer_contact", NoneVal))
          /\ (call.fn = "log_customer_data" /\ ~Logged(call)) => progress' = progress
          /\ ReadOnlyCall(call) => progress' = progress]_vars

C13_Witness ==
    /\ Len(calls) = 2
    /\ Logged(calls[1])
    /\ calls[2].fn = "get_all_customer_reports"
    /\ calls[2].result # <<>>
    /\ Len(progress) = 2
    /\ progress[1].customer_contact = progress[2].customer_contact
    /\ progress[1].user_id = progress[2].user_id

\* the call in hand supplied the question, the history and the tenant, and no customer_contact
CalledWithoutContact ==
    /\ req.user_question = Question
    /\ req.user_id \in Tenants
    /\ req.customer_contact = Missing

\* C15: customer_contact is optional: a call that supplies only the question,
\* the chat history and the tenant id does not fail at the call; it runs the
\* pipeline (the instructions are resolved and the first prompt is made)
C15_ContactOptional ==
    (pc = "done" /\ CalledWithoutContact)
        => /\ outcome.exc # "TypeError"
           /\ prompts # NoPrompts \/ outcome.exc = "get_llm"

\* the user messages of a stored WhatsApp history
StoredMessages(sender) ==
    LET h == session_files[sender].data.chat_history IN {h[i][1] : i \in DOMAIN h}

\* a webhook request that was taken up (not refused with 400) and has ended
Ended(h) == webhooks[h].pc = "done" /\ webhooks[h].status # 400
\* the requests between the load of the session and its save
InSection(h) == webhooks[h].pc \in {"load", "respond"}

\* C14: two requests of one customer that are in flight at the same time are
\* serialized: they are never both between load and save, and when both have
\* ended the stored history holds the turn of each, none lost
C14_RequestsSerialized ==
    \A h1, h2 \in Handlers :
        (h1 # h2 /\ webhooks[h1].sender = webhooks[h2].sender) =>
            /\ ~(InSection(h1) /\ InSection(h2))
            /\ (Ended(h1) /\ Ended(h2) /\ h1 \in webhooks[h2].with) =>
                  {webhooks[h1].body, webhooks[h2].body} \subseteq StoredMessages(webhooks[h1].sender)

\* the steps a request may take, a failing step ending it at once
PathEdges ==
    {<<"idle", "first_llm">>, <<"first_llm", "interpret">>,
     <<"interpret", "second_llm">>, <<"second_llm", "done">>,
     <<"interpret", "retrieve">>, <<"retrieve", "gather">>, <<"gather", "gather">>,
     <<"gather", "compress">>, <<"gather", "final_llm">>, <<"compress", "final_llm">>,
     <<"final_llm", "done">>, <<"done", "idle">>}
    \cup {<<p, "done">> : p \in {"idle", "first_llm", "interpret", "retrieve", "gather", "compress"}}

\* the steps that make a model completion
CompletionEdges ==
    {<<"first_llm", "interpret">>, <<"second_llm", "done">>, <<"final_llm", "done">>}

\* C16 (as claimed): a request that returns has followed one of two paths:
\* tool detected, with exactly two completions, the second made on the
\* dispatch's result; or no tool, with one completion whose output is the answer
C16_TwoPathsAsClaimed ==
    (pc = "done" /\ outcome.kind = "returned") =>
        \/ /\ tool.detected
           /\ Len(llm_calls) = 2
           /\ llm_calls[2].prompt = tool.second_prompt
        \/ /\ ~tool.detected
           /\ Len(llm_calls) = 1
           /\ outcome.answer = llm_calls[1].content

\* C16 (amended): no step of a request is retried, and a request that returns
\* has followed one of two paths, each with exactly two completions of its own
\* (the compression pass asks the model about each passage besides): first
\* completion, tool detected, dispatch, second completion on the dispatch's
\* result, done; or first completion, no tool, retrieval, merge, compression
\* (skipped when nothing was retrieved), final completion on the retrieval
\* prompt, done, the final completion's output being the answer
C16_TwoPaths ==
    [][/\ <<pc, pc'>> \in PathEdges
       /\ (pc = "gather" /\ pc' = "gather") =>
             (retrieval'.pending \subseteq retrieval.pending
              /\ retrieval'.pending # retrieval.pending)
       /\ llm_calls' # llm_calls =>
             \/ pc' = "idle" /\ llm_calls' = <<>>
             \/ /\ <<pc, pc'>> \in CompletionEdges
                /\ Len(llm_calls') = Len(llm_calls) + 1
                /\ SubSeq(llm_calls', 1, Len(llm_calls)) = llm_calls
       /\ (pc' = "done" /\ outcome'.kind = "returned") =>
             /\ Len(llm_calls') = 2
             /\ llm_calls'[1].prompt = prompts'.agent_prompt
             /\ outcome'.answer = llm_calls'[2].content
             /\ \/ /\ tool'.detected
                   /\ pc = "second_llm"
                   /\ retrieval' = NoRetrieval
                   /\ llm_calls'[2].prompt = tool'.second_prompt
                   /\ Contains(tool'.second_prompt, tool'.result)
                \/ /\ ~tool'.detected
                   /\ pc = "final_llm"
                   /\ tool' = NoTool
                   /\ retrieval'.tasks # <<>>
                   /\ llm_calls'[2].prompt = retrieval'.final_prompt]_vars

C16_Witness ==
    /\ pc = "done"
    /\ outcome.kind = "returned"
    /\ ~tool.detected
    /\ Len(llm_calls) = 2
    /\ retrieval.final_docs # <<>>
    /\ outcome.answer = llm_calls[2].content

\* the placeholder that stands for the context in the first prompt
NoContextNeeded == <<"No context needed for this step.">>

\* C17 (as claimed): retrieval and context assembly happen before the first
\* completion, whose prompt holds the retrieved context
C17_ContextInFirstPrompt ==
    llm_calls # <<>> =>
        /\ retrieval.context # <<>>
        /\ Contains(llm_calls[1].prompt, retrieval.context)

\* C17 (amended): the first completion is made before any retrieval, on a
\* prompt that holds the placeholder "No context needed for this step." in
\* place of the context; retrieval and context assembly happen after it and
\* only when its output is not a tool call, and the prompt of the final
\* completion holds the assembled context
C17_ContextInFinalPrompt ==
    /\ llm_calls # <<>> =>
          /\ llm_calls[1].prompt = prompts.agent_prompt
          /\ Contains(llm_calls[1].prompt, NoContextNeeded)
    /\ pc \in {"idle", "first_llm", "interpret", "second_llm"} => retrieval = NoRetrieval
    /\ retrieval # NoRetrieval => (llm_calls # <<>> /\ ~tool.detected)
    /\ tool.detected => retrieval = NoRetrieval
    /\ (pc = "done" /\ outcome.kind = "returned" /\ ~tool.detected) =>
          /\ retrieval.context # <<>>
          /\ Contains(llm_calls[2].prompt, retrieval.context)
          /\ ~Contains(llm_calls[2].prompt, NoContextNeeded)

C17_Witness ==
    /\ pc = "done"
    /\ outcome.kind = "returned"
    /\ Len(retrieval.final_docs) = 2
    /\ Contains(llm_calls[2].prompt, ContextPart(retrieval.final_docs[2]))
    /\ ~Contains(llm_calls[1].prompt, retrieval.context)

\* both branches ran and are complete
BothBranchesDone ==
    /\ retrieval.tasks = <<"base", "user">>
    /\ retrieval.pending = {}

\* C18: with both branches running, merging starts only when both have
\* completed, in whichever order; the merged list is that of the foundational
\* results followed by the tenant results, the same for both orders
C18_JoinThenMerge ==
    /\ (retrieval.tasks = <<"base", "user">> /\ pc \in {"compress", "final_llm"}) =>
          /\ retrieval.pending = {}
          /\ retrieval.finished \in {<<"base", "user">>, <<"user", "base">>}
          /\ retrieval.unique_docs = UniqueDocs(retrieval.base \o retrieval.user)
    /\ (pc = "gather" /\ retrieval.pending # {}) =>
          (retrieval.unique_docs = <<>> /\ retrieval.context = <<>>)

C18_Witness ==
    /\ pc = "compress"
    /\ retrieval.finished = <<"user", "base">>
    /\ retrieval.base = <<Doc("x1", GuidePdf, "1")>>
    /\ retrieval.user = <<Doc("x2", NotesDocx, "")>>
    /\ retrieval.unique_docs = retrieval.base \o retrieval.user

\* the text a passage had before the compression pass cut it
Origin(text) ==
    IF \E d \in BaseDocs \cup UserDocs : Extract(d.page_content) = text
    THEN (CHOOSE d \in BaseDocs \cup UserDocs : Extract(d.page_content) = text).page_content
    ELSE text

\* where a text first occurs among passages, and where a token first stands in a text
FirstSeen(docs, text) ==
    CHOOSE i \in DOMAIN docs :
        /\ docs[i].page_content = text
        /\ \A j \in 1..(i - 1) : docs[j].page_content # text

PositionOf(s, token) ==
    CHOOSE i \in DOMAIN s : s[i] = token /\ \A j \in 1..(i - 1) : s[j] # token

\* C19: the passages of the final context and of the returned sources stand
\* in the order in which their texts first occur in the foundational results
\* followed by the tenant results; deduplication, compression and formatting
\* reorder nothing
C19_FirstSeenOrder ==
    retrieval.final_prompt # <<>> =>
        LET all == retrieval.base \o retrieval.user
            final_docs == retrieval.final_docs
        IN /\ \A i, j \in DOMAIN final_docs :
                 i < j =>
                    /\ FirstSeen(all, Origin(final_docs[i].page_content))
                          < FirstSeen(all, Origin(final_docs[j].page_content))
                    /\ PositionOf(retrieval.context, final_docs[i].page_content)
                          < PositionOf(retrieval.context, final_docs[j].page_content)
                    /\ PositionOf(retrieval.final_prompt, final_docs[i].page_content)
                          < PositionOf(retrieval.final_prompt, final_docs[j].page_content)
           /\ (pc = "done" /\ outcome.kind = "returned") => outcome.sources = final_docs

C19_Witness ==
    /\ pc = "done"
    /\ outcome.kind = "returned"
    /\ retrieval.base = <<Doc("x1", GuidePdf, "1"), Doc("x2", GuidePdf, "1")>>
    /\ retrieval.user = <<Doc("x1", NotesDocx, "")>>
    /\ Len(outcome.sources) = 2
    /\ Origin(outcome.sources[1].page_content) = "x1"
    /\ outcome.sources[2].page_content = Extract("x2")

\* C20: a request whose merge found passages goes on when the compression pass
\* fails: its final prompt is built on the uncompressed deduplicated passages,
\* which are also the sources it returns
C20_CompressionFallback ==
    (pc = "done" /\ retrieval.unique_docs # <<>>) =>
        /\ retrieval.final_prompt # <<>>
        /\ retrieval.final_docs = <<>> =>
              Contains(retrieval.final_prompt, FormatContext(retrieval.unique_docs))
        /\ outcome.exc # "CompressionError"

\* the two sentinel contexts: nothing retrieved, nothing left by the compression
NothingFound == <<"No information found on this topic.">>
NothingRelevant == <<"No relevant information found after compression.">>
\* the request went through the retrieval path and returned
ReturnedFromRetrieval == pc = "done" /\ outcome.kind = "returned" /\ ~tool.detected

\* C21: when no passage survives (the merge is empty, or the compression pass
\* drops every passage) the returned sources are empty and the context in the
\* final prompt is a non-empty sentinel sentence; when passages survive, the
\* sources are exactly the surviving passages, those the context is made of
C21_SentinelOrSources ==
    ReturnedFromRetrieval =>
        /\ outcome.sources = retrieval.final_docs
        /\ retrieval.context # <<>>
        /\ Contains(Last(llm_calls).prompt, retrieval.context)
        /\ retrieval.unique_docs = <<>> =>
              (outcome.sources = <<>> /\ retrieval.context = NothingFound)
        /\ (retrieval.unique_docs # <<>> /\ retrieval.final_docs = <<>>) =>
              (outcome.sources = <<>> /\ retrieval.context = NothingRelevant)
        /\ retrieval.final_docs # <<>> =>
              /\ retrieval.context \notin {NothingFound, NothingRelevant}
              /\ \A i \in DOMAIN outcome.sources :
                    /\ Origin(outcome.sources[i].page_content)
                          \in TextsOf(retrieval.unique_docs)
                    /\ Contains(retrieval.context, ContextPart(outcome.sources[i]))
              /\ Len(retrieval.context) = 7 * Len(outcome.sources) - 1

C21_Witness ==
    /\ ReturnedFromRetrieval
    /\ Len(retrieval.unique_docs) = 2
    /\ outcome.sources = <<>>
    /\ Contains(llm_calls[2].prompt, NothingRelevant)

\* every read of the last get_prompts call succeeded
ReadsOk == resolved.tenantOk /\ resolved.globalOk /\ resolved.promoOk
\* the call before it was for the same tenant, its reads succeeded too, and no
\* file changed in between
ResolvedTwice ==
    /\ resolved.called
    /\ resolved.previous.called
    /\ resolved.previous.user_id = resolved.user_id
    /\ ReadsOk /\ resolved.previous.readsOk

\* C22: a resolve returns the text of a most recently modified file of the
\* tenant's candidates as they are on disk at the call (nothing of an earlier
\* resolve is reused), and two resolves with no file change in between return
\* the same text, also when two candidate files have equal modification times
C22_FreshAndDeterministic ==
    /\ (resolved.called /\ ReadsOk) =>
          /\ InstructionsOf(resolved.text)
                \in TenantTexts \cup GlobalTexts \cup {DefaultInstructions}
          /\ PromotionsOf(resolved.text) \in NewestTexts(PromoDir) \cup {DefaultPromotions}
    /\ ResolvedTwice => resolved.text = resolved.previous.text

\* format_chat_history was called on its own: req holds its argument
Formatted == pc = "idle" /\ req # NoReq
\* the label a role is rendered with
RoleLabel(role) == IF role = "user" THEN "User" ELSE "Assistant"

\* C23: a non-empty history is rendered as one line per turn, "<Role>: <content>",
\* the lines separated by newlines and standing in the order of the turns,
\* each turn once; an empty history is rendered as exactly "No conversation
\* history yet."; the result is never empty
C23_HistoryRendered ==
    Formatted =>
        LET h == req.chat_history
            s == prompts.formatted_history
        IN /\ s # <<>>
           /\ h = <<>> => s = <<"No conversation history yet.">>
           /\ h # <<>> =>
                 /\ Len(s) = 4 * Len(h) - 1
                 /\ \A i \in DOMAIN h :
                       /\ SubSeq(s, 4 * i - 3, 4 * i - 1)
                             = <<RoleLabel(h[i].role), ": ", h[i].content>>
                       /\ i < Len(h) => s[4 * i] = "\n"

C23_Witness ==
    /\ Formatted
    /\ Len(req.chat_history) = 3
    /\ req.chat_history[1].role = "assistant"
    /\ req.chat_history[2] = [role |-> "user", content |-> ""]
    /\ SubSeq(prompts.formatted_history, 5, 7) = <<"User", ": ", "">>

\* the headers of a prompt's sections, in the order claimed: core persona and
\* sales behaviour, tenant-custom instructions, promotions, retrieved context,
\* conversation history, the question, the tool catalog, the invocation format
SectionHeaders ==
    <<"**Core Persona & Sales Instructions**", "**Client's Custom Persona Instructions**",
      PromoHeader, "[CONTEXTUAL KNOWLEDGE BASE (Your source of truth with citations)]",
      "[CURRENT CONVERSATION (Your short-term memory)]", "[USER'S LATEST MESSAGE]",
      "**Available Tools:**", "**How to Use Tools:**">>

Holds(s, token) == \E i \in DOMAIN s : s[i] = token
SectionsInOrder(prompt) ==
    /\ \A i \in DOMAIN SectionHeaders : Holds(prompt, SectionHeaders[i])
    /\ \A i, j \in DOMAIN SectionHeaders :
          i < j =>
             PositionOf(prompt, SectionHeaders[i]) < PositionOf(prompt, SectionHeaders[j])

\* C24: every prompt sent for a completion holds its sections in the order
\* core persona, tenant-custom instructions, promotions, retrieved context,
\* conversation history, the user's question and, last, the tool catalog with
\* the invocation format
C24_SectionOrder ==
    \A i \in DOMAIN llm_calls : SectionsInOrder(llm_calls[i].prompt)

\* C25: a retrieval that reads an index while its rebuild is in progress finds
\* the complete old index or the complete new one, never a deleted, an empty
\* or a partly built one
C25_ReadsSeeCompleteIndex ==
    observed.rebuilding => observed.saw \in {"old", "new"}

\* the customer and the tenant a dispatched tool call is keyed by
KeyOf(parameters) ==
    <<SqlValue(dict_get(parameters, "customer_contact", NoneVal)),
      SqlValue(dict_get(parameters, "user_id", NoneVal))>>

\* C26: a tool function entered by the dispatch of a request made for tenant T
\* and customer C is called with exactly customer_contact = C and user_id = T,
\* and every record the request writes is keyed by (C, T), whatever the model
\* wrote in its output
C26_KeyedByRequest ==
    /\ tool.ran # <<>> => KeyOf(tool.parameters) = <<req.customer_contact, req.user_id>>
    /\ pc # "idle" =>
          \A i \in DOMAIN progress :
             progress[i].log_time = requests =>
                /\ progress[i].customer_contact = req.customer_contact
                /\ progress[i].user_id = req.user_id

\* the log times a report names, in the order of its lines
RECURSIVE TimesIn(_)
TimesIn(text) ==
    IF Len(text) < 2 THEN <<>>
    ELSE IF Head(text) = "- On " THEN <<text[2]>> \o TimesIn(Tail(Tail(text)))
    ELSE TimesIn(Tail(text))

\* the log times of the records of a customer of a tenant, the latest first
RECURSIVE TimesOf(_, _, _)
TimesOf(rows, cc, uid) ==
    IF rows = <<>> THEN <<>>
    ELSE LET r == Last(rows)
             before == TimesOf(SubSeq(rows, 1, Len(rows) - 1), cc, uid)
         IN IF r.customer_contact = cc /\ r.user_id = uid
            THEN <<ToString(r.log_time)>> \o before ELSE before

NoProgressYet == <<"No progress has been logged for this customer yet.">>
\* the customers of a tenant that have a record
CustomersOf(rows, uid) ==
    {rows[i].customer_contact : i \in {j \in DOMAIN rows : rows[j].user_id = uid}}

\* the report of the last call names exactly the records of its customer and tenant
ReportIsExact(call) ==
    LET cc == KeyOf(call.kw)[1]
        uid == KeyOf(call.kw)[2]
    IN IF TimesOf(progress, cc, uid) = <<>>
       THEN call.result = NoProgressYet
       ELSE /\ TimesIn(call.result) = TimesOf(progress, cc, uid)
            /\ Head(call.result) = "Here is the customer's progress report so far:\n"

\* the reports of the last call are exactly those of the tenant's customers
AllReportsAreExact(call) ==
    LET uid == call.kw.str
    IN /\ {call.result[i].contact : i \in DOMAIN call.result} = CustomersOf(progress, uid)
       /\ Len(call.result) = Cardinality(CustomersOf(progress, uid))
       /\ \A i \in DOMAIN call.result :
             LET entries == call.result[i].entries
             IN [j \in DOMAIN entries |-> entries[j][2]]
                   = TimesOf(progress, call.result[i].contact, uid)

LastSeen(docs, text) ==
    CHOOSE i \in DOMAIN docs :
        /\ docs[i].page_content = text
        /\ \A j \in (i + 1)..Len(docs) : docs[j].page_content # text

\* the number of distinct texts among the first n passages
DistinctUpTo(docs, n) == Cardinality({docs[i].page_content : i \in 1..n})

\* C28: after the merge, the passage kept for a text stands at the rank of
\* the text's first occurrence in the foundational-then-tenant concatenation
\* and is the passage (source file, page) of the text's last occurrence
\* there; the context names that source and page
C28_FirstPositionLastMetadata ==
    retrieval.unique_docs # <<>> =>
        LET all == retrieval.base \o retrieval.user
            unique_docs == retrieval.unique_docs
        IN /\ Len(unique_docs) = DistinctUpTo(all, Len(all))
           /\ \A i \in DOMAIN unique_docs :
                 LET text == unique_docs[i].page_content
                 IN /\ i = DistinctUpTo(all, FirstSeen(all, text))
                    /\ unique_docs[i] = all[LastSeen(all, text)]
           /\ \A i \in DOMAIN retrieval.final_docs :
                 LET d == retrieval.final_docs[i]
                     last == all[LastSeen(all, Origin(d.page_content))]
                 IN /\ d.source = last.source /\ d.page = last.page
                    /\ retrieval.final_prompt # <<>> =>
                          Contains(retrieval.final_prompt,
                                   <<"Source: ", basename(last.source), ", Page: ",
                                     IF last.page = "" THEN "N/A" ELSE last.page>>)

C28_Witness ==
    /\ pc = "done"
    /\ outcome.kind = "returned"
    /\ retrieval.base = <<Doc("x1", GuidePdf, "1"), Doc("x2", GuidePdf, "1")>>
    /\ retrieval.user = <<Doc("x1", NotesDocx, "")>>
    /\ outcome.sources = <<Doc("x1", NotesDocx, ""), Doc("x2", GuidePdf, "1")>>
    /\ Contains(retrieval.final_prompt, <<"Source: ", "notes.docx", ", Page: ", "N/A">>)

\* the lock of a sender is held by a request of that sender that is between
\* its acquire and its exit, and by no other; a request in that stretch holds it
LockHeldInSection ==
    /\ \A s \in Senders :
          session_locks[s] # 0 =>
             /\ InSection(session_locks[s])
             /\ webhooks[session_locks[s]].sender = s
    /\ \A h \in Handlers : InSection(h) => session_locks[webhooks[h].sender] = h

\* a waiting request whose sender has no request in the section can acquire
OnlyOwnSenderBlocks ==
    \A h \in Handlers :
        (/\ webhooks[h].pc = "acquire"
         /\ \A h2 \in Handlers : InSection(h2) => webhooks[h2].sender # webhooks[h].sender)
            => CanAcquire(h)

\* a step that ends a request with status 500 leaves every session file as it was
FailureKeepsFile ==
    (\E h \in Handlers : webhooks[h].status # 500 /\ webhooks'[h].status = 500)
        => session_files' = session_files

\* C29: the sender's lock is released on every exit of the handler, also when
\* processing raises: the lock is held only by a request that is still being
\* processed, a request waiting for the lock is in the end answered, requests
\* of different senders never wait for each other, and a request that fails
\* leaves the sender's session file unchanged
C29_LockReleased ==
    /\ [](LockHeldInSection /\ OnlyOwnSenderBlocks)
    /\ [][FailureKeepsFile]_vars
    /\ \A h \in Handlers : (webhooks[h].pc = "acquire") ~> (webhooks[h].pc = "done")

C29_Witness ==
    /\ webhooks[1].pc = "done" /\ webhooks[1].status = 500
    /\ webhooks[2].sender = webhooks[1].sender
    /\ 1 \in webhooks[2].with
    /\ webhooks[2].pc = "respond"
    /\ session_locks[webhooks[2].sender] = 2
    /\ session_files[webhooks[1].sender] = File(StoredSession("recent"))

\* a verify_user call of a browser session returns in this step, for username u
VerifyReturns(b, u) ==
    /\ verifying[b].pc = "selected"
    /\ verifying[b].username = u
    /\ verifying'[b].pc = "idle"

\* C30: the verification key is one-time.  A verify_user(u, k) returns True
\* only when u exists, is not yet verified and k is u's stored key; u is then
\* verified and its key cleared; once u is verified every verify_user(u, .)
\* returns False and u stays verified; a verify_user that returns False and
\* an add_user of an existing username leave the users table as it was
C30_OneTimeKey ==
    [][/\ \A b \in BrowserSessions, u \in Usernames :
             VerifyReturns(b, u) =>
                /\ returned'.result = "True" =>
                      /\ users.rows[u].exists
                      /\ ~users.rows[u].is_verified
                      /\ users.rows[u].verification_key = verifying[b].verification_key
                      /\ users'.rows[u].is_verified
                      /\ users'.rows[u].verification_key = Null
                /\ users.rows[u].is_verified => returned'.result = "False"
                /\ returned'.result = "False" => users' = users
       /\ \A u \in Usernames :
             /\ users.rows[u].is_verified => users'.rows[u].is_verified
             /\ (users.rows[u].exists /\ returned' # returned /\ returned'.fn = "add_user"
                   /\ returned'.username = u)
                  => (returned'.result = "None" /\ users' = users)]_vars

====
